---------------------------- MODULE Spec2Model ----------------------------
(***************************************************************************)
(* ino2ubi: the extractor (src/parser.py), the emitter (src/generator.py)  *)
(* and the caller's alias substitution (src/gui.py), as a state machine.   *)
(*                                                                         *)
(* Text is a sequence of one-character strings.  Offsets are 0-based, as   *)
(* in the Python source: At(s, i) is s[i] and Slice(s, a, b) is s[a:b].    *)
(* A regular expression of the source is modelled by a matcher that does   *)
(* what the expression does on the text (leftmost match, greedy runs).     *)
(***************************************************************************)
EXTENDS Integers, Sequences, FiniteSets, TLC

VARIABLES
    code,               \* the sketch text held by the editor (code_input)
    block_name,         \* the block name held by the caller
    block_description,  \* the block description held by the caller
    leading_comment,    \* fact set: the comment that opens the sketch
    setup_code,         \* body of setup() as handed to the emitter
    loop_code,          \* body of loop() as handed to the emitter
    global_section_raw, \* fact set: text before the first entry point
    functions,          \* fact set: catalog of user functions, in dict order
    variables,          \* fact set: primitive globals, in dict order
    global_includes,    \* fact set: #include lines
    defines,            \* fact set: #define records
    extra_declarations, \* fact set: opaque declarations
    enable_input,       \* the enable-gate option of the caller
    xml,                \* the document of the last render (<<>> before any)
    xml_prev,           \* the document of the render before the last
    edits,              \* the number of times Save was pressed in a variable dialog
    cli_description,    \* args.description of the command line (<<>>: not given)
    dest_file,          \* the destination file on disk
    outcome,            \* the last handler that ran and how it ended
    phase               \* the step of the session that was taken last

vars == <<code, block_name, block_description, leading_comment, setup_code,
          loop_code, global_section_raw, functions, variables, global_includes,
          defines, extra_declarations, enable_input, xml, xml_prev, edits,
          cli_description, dest_file, outcome, phase>>

\* what only the handlers of the application read and write
application == <<cli_description, dest_file, outcome>>

-----------------------------------------------------------------------------
(* Characters and Python string primitives                                 *)

Whitespace == {" ", "\t", "\n", "\r"}

Digits == {"0", "1", "2", "3", "4", "5", "6", "7", "8", "9"}

Letters ==
    {"a", "b", "c", "d", "e", "f", "g", "h", "i", "j", "k", "l", "m",
     "n", "o", "p", "q", "r", "s", "t", "u", "v", "w", "x", "y", "z",
     "A", "B", "C", "D", "E", "F", "G", "H", "I", "J", "K", "L", "M",
     "N", "O", "P", "Q", "R", "S", "T", "U", "V", "W", "X", "Y", "Z"}

\* \s of the re module, str.isspace
IsSpace(c) == c \in Whitespace

\* \w of the re module
IsWord(c) == c \in Letters \cup Digits \cup {"_"}

\* [A-Za-z_]
IsIdentStart(c) == c \in Letters \cup {"_"}

\* s[i]
At(s, i) == s[i + 1]

\* s[a:b] for 0 <= a
Slice(s, a, b) ==
    LET e == IF b > Len(s) THEN Len(s) ELSE b
    IN  IF a >= e THEN <<>> ELSE SubSeq(s, a + 1, e)

\* s.startswith(w, i)
StartsWith(s, w, i) ==
    /\ i >= 0
    /\ i + Len(w) <= Len(s)
    /\ \A k \in 1..Len(w) : s[i + k] = w[k]

RECURSIVE FirstIn(_, _, _)
\* the least offset i with a <= i < b and P(i), or -1: a search that stops
\* at its first hit, split in halves to keep the evaluation shallow
FirstIn(P(_), a, b) ==
    IF a >= b THEN -1
    ELSE IF b = a + 1 THEN (IF P(a) THEN a ELSE -1)
    ELSE LET m == (a + b) \div 2
             l == FirstIn(P, a, m)
         IN  IF l # -1 THEN l ELSE FirstIn(P, m, b)

RECURSIVE LastIn(_, _, _)
\* the greatest offset i with a <= i < b and P(i), or -1
LastIn(P(_), a, b) ==
    IF a >= b THEN -1
    ELSE IF b = a + 1 THEN (IF P(a) THEN a ELSE -1)
    ELSE LET m == (a + b) \div 2
             r == LastIn(P, m, b)
         IN  IF r # -1 THEN r ELSE LastIn(P, a, m)

RECURSIVE FoldRange(_, _, _, _)
\* a for loop over the offsets a..(b - 1) in order: the state after it,
\* F(st, i) being the state after the iteration at offset i
FoldRange(F(_, _), st, a, b) ==
    IF a >= b THEN st
    ELSE IF b = a + 1 THEN F(st, a)
    ELSE LET m == (a + b) \div 2
             left == FoldRange(F, st, a, m)
         IN  \* the first half is computed before the second is entered
             IF left = left THEN FoldRange(F, left, m, b) ELSE st

RECURSIVE SkipSpace(_, _)
\* the offset reached by a greedy \s* that starts at offset i
SkipSpace(s, i) ==
    IF i < Len(s) /\ IsSpace(At(s, i)) THEN SkipSpace(s, i + 1) ELSE i

RECURSIVE SkipWord(_, _)
\* the offset reached by a greedy [a-zA-Z0-9_]* that starts at offset i
SkipWord(s, i) ==
    IF i < Len(s) /\ IsWord(At(s, i)) THEN SkipWord(s, i + 1) ELSE i

RECURSIVE SkipSpaceBack(_, _)
\* the end offset left by str.rstrip() of s[:e]
SkipSpaceBack(s, e) ==
    IF e > 0 /\ IsSpace(At(s, e - 1)) THEN SkipSpaceBack(s, e - 1) ELSE e

\* str.strip()
Strip(s) ==
    LET a == SkipSpace(s, 0)
        e == SkipSpaceBack(s, Len(s))
    IN  Slice(s, a, e)

\* str.rstrip()
RStrip(s) == Slice(s, 0, SkipSpaceBack(s, Len(s)))

\* str.find(w, i): the least offset >= i where w starts, or -1
Find(s, w, i) == FirstIn(LAMBDA p : StartsWith(s, w, p), i, Len(s) - Len(w) + 1)

\* ''.join(parts)
Flatten(parts) ==
    FoldRange(LAMBDA acc, i : acc \o parts[i + 1], <<>>, 0, Len(parts))

-----------------------------------------------------------------------------
(* Entry-point bodies and the global section                                *)

\* re.match of  void\s+NAME\s*\(  at offset p: the offset after "(" or -1
MatchEntryOpen(s, func_name, p) ==
    IF ~StartsWith(s, <<"v", "o", "i", "d">>, p) THEN -1
    ELSE LET a == p + Len(<<"v", "o", "i", "d">>)
             b == SkipSpace(s, a)
         IN  IF b = a \/ ~StartsWith(s, func_name, b) THEN -1
             ELSE LET c == SkipSpace(s, b + Len(func_name))
                  IN  IF StartsWith(s, <<"(">>, c) THEN c + 1 ELSE -1

\* re.match of  void\s+NAME\s*\(\s*\)\s*\{  at offset p: match.end() or -1
MatchEntry(s, func_name, p) ==
    LET c == MatchEntryOpen(s, func_name, p)
    IN  IF c = -1 THEN -1
        ELSE LET d == SkipSpace(s, c)
             IN  IF ~StartsWith(s, <<")">>, d) THEN -1
                 ELSE LET e == SkipSpace(s, d + 1)
                      IN  IF StartsWith(s, <<"{">>, e) THEN e + 1 ELSE -1

\* re.search(pattern, code): match.end() of the leftmost match from offset
\* p on, or -1
SearchEntry(s, func_name, p) ==
    LET at == FirstIn(LAMBDA i : MatchEntry(s, func_name, i) # -1, p, Len(s))
    IN  IF at = -1 THEN -1 ELSE MatchEntry(s, func_name, at)

\* re.search(r'void\s+NAME\s*\(', code): match.start() of the leftmost
\* match from offset p on, or -1
SearchEntryOpen(s, func_name, p) ==
    FirstIn(LAMBDA i : MatchEntryOpen(s, func_name, i) # -1, p, Len(s))

\* one iteration of the while loop of both body extractors, at offset i:
\* <<pos, brace_count>> after it; the loop has ended once brace_count is 0
BraceStep(s, st, i) ==
    IF st[2] > 0
    THEN <<i + 1, IF At(s, i) = "{" THEN st[2] + 1
                  ELSE IF At(s, i) = "}" THEN st[2] - 1
                  ELSE st[2]>>
    ELSE st

\* the while loop of both body extractors: <<pos, brace_count>> at its exit
ScanBraces(s, pos, brace_count) ==
    FoldRange(LAMBDA st, i : BraceStep(s, st, i), <<pos, brace_count>>, pos, Len(s))

\* the body extractors without the test that the depth is back to zero
BodyResultTruncated(s, start_pos, pos, brace_count) ==
    Strip(Slice(s, start_pos, pos - 1))

\* what an extractor returns once its scan has stopped
BodyResult(s, start_pos, pos, brace_count) ==
    IF brace_count = 0 THEN Strip(Slice(s, start_pos, pos - 1)) ELSE <<>>

extract_custom_function_body(s, start_pos) ==
    LET r == ScanBraces(s, start_pos, 1)
    IN  BodyResult(s, start_pos, r[1], r[2])

extract_function_body(s, func_name) ==
    LET start_pos == SearchEntry(s, func_name, 0)
    IN  IF start_pos = -1 THEN <<>>
        ELSE LET r == ScanBraces(s, start_pos, 1)
             IN  BodyResult(s, start_pos, r[1], r[2])

\* first_func_pos of extract_global_section and of parse_functions
FirstFuncPos(s) ==
    LET setup_pos == SearchEntryOpen(s, <<"s", "e", "t", "u", "p">>, 0)
        loop_pos == SearchEntryOpen(s, <<"l", "o", "o", "p">>, 0)
        p1 == IF setup_pos # -1 /\ setup_pos < Len(s) THEN setup_pos ELSE Len(s)
    IN  IF loop_pos # -1 /\ loop_pos < p1 THEN loop_pos ELSE p1

\* extract_global_section without its .strip()
extract_global_section_untrimmed(s) == Slice(s, 0, FirstFuncPos(s))

extract_global_section(s) == Strip(Slice(s, 0, FirstFuncPos(s)))

-----------------------------------------------------------------------------
(* Dictionaries: a Python dict is a sequence of records with distinct name  *)
(* fields, in insertion order                                                *)

Names(d) == {d[i].name : i \in 1..Len(d)}

IndexOf(d, name) == CHOOSE i \in 1..Len(d) : d[i].name = name

\* d[name] = rec: a new key is appended, an old key keeps its place
DictPut(d, rec) ==
    IF rec.name \in Names(d)
    THEN [d EXCEPT ![IndexOf(d, rec.name)] = rec]
    ELSE Append(d, rec)

-----------------------------------------------------------------------------
(* Function cataloging                                                      *)

\* the return types of func_pattern, in the order of its alternation
FuncReturnTypes ==
    <<<<"v", "o", "i", "d">>, <<"i", "n", "t">>, <<"l", "o", "n", "g">>,
      <<"b", "o", "o", "l">>, <<"b", "o", "o", "l", "e", "a", "n">>,
      <<"f", "l", "o", "a", "t">>, <<"d", "o", "u", "b", "l", "e">>,
      <<"b", "y", "t", "e">>,
      <<"c", "h", "a", "r">>, <<"S", "t", "r", "i", "n", "g">>,
      <<"u", "i", "n", "t", "8", "_", "t">>,
      <<"i", "n", "t", "1", "6", "_", "t">>,
      <<"u", "i", "n", "t", "1", "6", "_", "t">>,
      <<"i", "n", "t", "3", "2", "_", "t">>,
      <<"u", "i", "n", "t", "3", "2", "_", "t">>>>

NoMatch == [start |-> -1, end |-> -1, type |-> <<>>, name |-> <<>>, params |-> <<>>]

RECURSIVE SplitChar(_, _, _)
\* str.split(ch): the pieces of s between occurrences of ch, from offset i
\* with the piece begun at offset a
SplitChar(s, ch, a) ==
    LET e == Find(s, <<ch>>, a)
    IN  IF e = -1 THEN <<Slice(s, a, Len(s))>>
        ELSE <<Slice(s, a, e)>> \o SplitChar(s, ch, e + 1)

RECURSIVE SkipNonSpace(_, _)
SkipNonSpace(s, i) ==
    IF i < Len(s) /\ ~IsSpace(At(s, i)) THEN SkipNonSpace(s, i + 1) ELSE i

RECURSIVE SplitWords(_, _)
\* str.split(): the whitespace-separated words of s from offset i
SplitWords(s, i) ==
    LET a == SkipSpace(s, i)
    IN  IF a >= Len(s) THEN <<>>
        ELSE LET e == SkipNonSpace(s, a)
             IN  <<Slice(s, a, e)>> \o SplitWords(s, e)

RECURSIVE ParamsOf(_)
\* the loop of parse_function_params over param_list
ParamsOf(param_list) ==
    IF param_list = <<>> THEN <<>>
    ELSE LET parts == SplitWords(Strip(Head(param_list)), 0)
         IN  (IF Len(parts) >= 2
              THEN <<[type |-> parts[1], name |-> parts[2]]>>
              ELSE <<>>) \o ParamsOf(Tail(param_list))

parse_function_params(params_str) ==
    IF Strip(params_str) = <<>> THEN <<>>
    ELSE ParamsOf(SplitChar(params_str, ",", 0))

\* the return type that func_pattern matches at offset p: the alternative
\* that is followed by whitespace (at most one is), or <<>>
FuncTypeAt(s, p) ==
    LET ok == {i \in 1..Len(FuncReturnTypes) :
                  /\ StartsWith(s, FuncReturnTypes[i], p)
                  /\ p + Len(FuncReturnTypes[i]) < Len(s)
                  /\ IsSpace(At(s, p + Len(FuncReturnTypes[i])))}
    IN  IF ok = {} THEN <<>>
        ELSE FuncReturnTypes[CHOOSE i \in ok : \A j \in ok : i <= j]

\* re.match of func_pattern at offset p
\*   (types)\s+([a-zA-Z_][a-zA-Z0-9_]*)\s*\(([^)]*)\)\s*\{
MatchFunc(s, p) ==
    LET t == FuncTypeAt(s, p)
        b == SkipSpace(s, p + Len(t))
        c == SkipWord(s, b)
        d == SkipSpace(s, c)
        e == Find(s, <<")">>, d + 1)
        f == SkipSpace(s, e + 1)
    IN  IF t = <<>> THEN NoMatch
        ELSE IF ~(b < Len(s) /\ IsIdentStart(At(s, b))) THEN NoMatch
        ELSE IF ~StartsWith(s, <<"(">>, d) THEN NoMatch
        ELSE IF e = -1 THEN NoMatch
        ELSE IF ~StartsWith(s, <<"{">>, f) THEN NoMatch
        ELSE [start |-> p, end |-> f + 1, type |-> t,
              name |-> Slice(s, b, c), params |-> Slice(s, d + 1, e)]

RECURSIVE FindFuncs(_, _)
\* list(re.finditer(func_pattern, code)): the non-overlapping matches from
\* offset p on, left to right
FindFuncs(s, p) ==
    LET at == FirstIn(LAMBDA i : MatchFunc(s, i).start # -1, p, Len(s))
    IN  IF at = -1 THEN <<>>
        ELSE <<MatchFunc(s, at)>> \o FindFuncs(s, MatchFunc(s, at).end)

\* the record parse_functions stores for one match
FuncRecord(s, m) ==
    [name |-> m.name,
     return_type |-> Strip(m.type),
     params |-> Strip(m.params),
     parsed_params |-> parse_function_params(Strip(m.params)),
     body |-> extract_custom_function_body(s, m.end),
     before |-> m.start < FirstFuncPos(s)]    \* location == "до setup/loop"

RECURSIVE CatalogFuncsAll(_, _, _)
\* the for loop of parse_functions without the test of the name: setup
\* and loop are cataloged like any other function
CatalogFuncsAll(s, matches, acc) ==
    IF matches = <<>> THEN acc
    ELSE CatalogFuncsAll(s, Tail(matches), DictPut(acc, FuncRecord(s, Head(matches))))

RECURSIVE CatalogFuncs(_, _, _)
\* the for loop of parse_functions over the matches
CatalogFuncs(s, matches, acc) ==
    IF matches = <<>> THEN acc
    ELSE LET m == Head(matches)
         IN  IF m.name \in {<<"s", "e", "t", "u", "p">>, <<"l", "o", "o", "p">>}
             THEN CatalogFuncs(s, Tail(matches), acc)
             ELSE CatalogFuncs(s, Tail(matches), DictPut(acc, FuncRecord(s, m)))

parse_functions(s) == CatalogFuncs(s, FindFuncs(s, 0), <<>>)

-----------------------------------------------------------------------------
(* Global declarations: masking, directives                                 *)

\* the return types of the pattern that removes functions from the section
MaskReturnTypes ==
    <<<<"v", "o", "i", "d">>, <<"i", "n", "t">>, <<"l", "o", "n", "g">>,
      <<"b", "o", "o", "l">>, <<"b", "o", "o", "l", "e", "a", "n">>,
      <<"f", "l", "o", "a", "t">>, <<"d", "o", "u", "b", "l", "e">>,
      <<"b", "y", "t", "e">>,
      <<"c", "h", "a", "r">>, <<"S", "t", "r", "i", "n", "g">>>>

\* ' ' * n
Spaces(n) == [i \in 1..n |-> " "]

\* the end of the line that holds offset i: the offset of the next "\n",
\* or len(s)
LineEnd(s, i) == IF Find(s, <<"\n">>, i) = -1 THEN Len(s) ELSE Find(s, <<"\n">>, i)

\* re.match at offset p of
\*   (types)\s+NAME\s*\([^)]*\)\s*\{[^}]*\}   : match.end() or -1
MatchFuncDef(s, func_name, p) ==
    LET ok == {i \in 1..Len(MaskReturnTypes) :
                  /\ StartsWith(s, MaskReturnTypes[i], p)
                  /\ p + Len(MaskReturnTypes[i]) < Len(s)
                  /\ IsSpace(At(s, p + Len(MaskReturnTypes[i])))}
        t == MaskReturnTypes[CHOOSE i \in ok : TRUE]
        b == SkipSpace(s, p + Len(t))
        c == SkipSpace(s, b + Len(func_name))
        e == Find(s, <<")">>, c + 1)
        f == SkipSpace(s, e + 1)
        g == Find(s, <<"}">>, f + 1)
    IN  IF ok = {} THEN -1
        ELSE IF ~StartsWith(s, func_name, b) THEN -1
        ELSE IF ~StartsWith(s, <<"(">>, c) THEN -1
        ELSE IF e = -1 THEN -1
        ELSE IF ~StartsWith(s, <<"{">>, f) THEN -1
        ELSE IF g = -1 THEN -1
        ELSE g + 1

RECURSIVE RemoveFuncDef(_, _, _)
\* re.sub(func_pattern, '', section) for one function name, from offset p
RemoveFuncDef(s, func_name, p) ==
    LET at == FirstIn(LAMBDA i : MatchFuncDef(s, func_name, i) # -1, p, Len(s))
    IN  IF at = -1 THEN Slice(s, p, Len(s))
        ELSE Slice(s, p, at) \o RemoveFuncDef(s, func_name, MatchFuncDef(s, func_name, at))

RECURSIVE RemoveFunctions(_, _)
\* the loop that removes the functions defined before setup/loop
RemoveFunctions(section, funcs) ==
    IF funcs = <<>> THEN section
    ELSE RemoveFunctions(
             IF Head(funcs).before
             THEN RemoveFuncDef(section, Head(funcs).name, 0)
             ELSE section,
             Tail(funcs))

\* the pattern ^\s*#include[^\n]*$ (re.MULTILINE) matches at offset p
IncludeAt(s, p) ==
    /\ p = 0 \/ At(s, p - 1) = "\n"
    /\ StartsWith(s, <<"#", "i", "n", "c", "l", "u", "d", "e">>, SkipSpace(s, p))

RECURSIVE FindIncludes(_, _)
\* re.findall(r'^\s*#include[^\n]*$', section, re.MULTILINE) from offset p
FindIncludes(s, p) ==
    LET at == FirstIn(LAMBDA i : IncludeAt(s, i), p, Len(s))
        e == LineEnd(s, SkipSpace(s, at))
    IN  IF at = -1 THEN <<>>
        ELSE <<Slice(s, at, e)>> \o FindIncludes(s, e)

\* re.search(r'//\s*WORD\b', text) finds a match
HasMarker(text, word) ==
    \E p \in 0..Len(text) :
        /\ StartsWith(text, <<"/", "/">>, p)
        /\ LET q == SkipSpace(text, p + 2)
           IN  /\ StartsWith(text, word, q)
               /\ (q + Len(word) = Len(text) \/ ~IsWord(At(text, q + Len(word))))

LowerCase == <<"a", "b", "c", "d", "e", "f", "g", "h", "i", "j", "k", "l", "m",
               "n", "o", "p", "q", "r", "s", "t", "u", "v", "w", "x", "y", "z">>

UpperCase == <<"A", "B", "C", "D", "E", "F", "G", "H", "I", "J", "K", "L", "M",
               "N", "O", "P", "Q", "R", "S", "T", "U", "V", "W", "X", "Y", "Z">>

\* str.lower()
Lower(s) ==
    [i \in 1..Len(s) |->
        IF \E k \in 1..26 : UpperCase[k] = s[i]
        THEN LowerCase[CHOOSE k \in 1..26 : UpperCase[k] = s[i]]
        ELSE s[i]]

\* int(s) succeeds: an optional sign and decimal digits
IsIntText(s) ==
    LET t == Strip(s)
        d == IF t # <<>> /\ t[1] \in {"+", "-"} THEN Tail(t) ELSE t
    IN  d # <<>> /\ \A i \in 1..Len(d) : d[i] \in Digits

\* float(s) succeeds: an optional sign, decimal digits and at most one point
IsFloatText(s) ==
    LET t == Strip(s)
        d == IF t # <<>> /\ t[1] \in {"+", "-"} THEN Tail(t) ELSE t
    IN  /\ \E i \in 1..Len(d) : d[i] \in Digits
        /\ \A i \in 1..Len(d) : d[i] \in Digits \cup {"."}
        /\ Cardinality({i \in 1..Len(d) : d[i] = "."}) <= 1

\* s.replace(',', '.', 1)
ReplaceFirstComma(s) ==
    LET i == Find(s, <<",">>, 0)
    IN  IF i = -1 THEN s ELSE [s EXCEPT ![i + 1] = "."]

\* infer_define_type without its two except clauses: the ValueError of
\* float() or int() leaves the function
infer_define_type_uncaught(value) ==
    LET t == Strip(value)
    IN  IF value = <<>> THEN <<"S", "t", "r", "i", "n", "g">>
        ELSE IF /\ Len(t) >= 1
                /\ \/ (t[1] = "\"" /\ t[Len(t)] = "\"")
                   \/ (t[1] = "'" /\ t[Len(t)] = "'")
        THEN <<"S", "t", "r", "i", "n", "g">>
        ELSE IF Lower(t) \in {<<"t", "r", "u", "e">>, <<"f", "a", "l", "s", "e">>}
        THEN <<"b", "o", "o", "l", "e", "a", "n">>
        ELSE IF \E i \in 1..Len(t) : t[i] \in {",", "."}
        THEN (IF IsFloatText(ReplaceFirstComma(t)) THEN <<"f", "l", "o", "a", "t">>
              ELSE <<"V", "a", "l", "u", "e", "E", "r", "r", "o", "r">>)
        ELSE IF IsIntText(t) THEN <<"l", "o", "n", "g">>
        ELSE <<"V", "a", "l", "u", "e", "E", "r", "r", "o", "r">>

\* infer_define_type: the type a #define is given from its value
infer_define_type(value) ==
    LET t == Strip(value)
    IN  IF value = <<>> THEN <<"S", "t", "r", "i", "n", "g">>
        ELSE IF /\ Len(t) >= 1
                /\ \/ (t[1] = "\"" /\ t[Len(t)] = "\"")
                   \/ (t[1] = "'" /\ t[Len(t)] = "'")
        THEN <<"S", "t", "r", "i", "n", "g">>
        ELSE IF Lower(t) \in {<<"t", "r", "u", "e">>, <<"f", "a", "l", "s", "e">>}
        THEN <<"b", "o", "o", "l", "e", "a", "n">>
        ELSE IF (\E i \in 1..Len(t) : t[i] \in {",", "."})
                /\ IsFloatText(ReplaceFirstComma(t))
        THEN <<"f", "l", "o", "a", "t">>
        ELSE IF IsIntText(t) THEN <<"l", "o", "n", "g">>
        ELSE <<"S", "t", "r", "i", "n", "g">>

\* the body of the loop over section.split('\n') for one line: the define
\* record of the line, or <<>> when the line is skipped
DefineOfLine(line, line_offset) ==
    LET stripped == Strip(line)
        b == SkipSpace(stripped, Len(<<"#", "d", "e", "f", "i", "n", "e">>))
        c == SkipWord(stripped, b)
        rest == Strip(Slice(stripped, SkipSpace(stripped, c), Len(stripped)))
        cut == Find(rest, <<"/", "/">>, 0)
        value == IF cut # -1 THEN Strip(Slice(rest, 0, cut)) ELSE rest
    IN  IF ~StartsWith(stripped, <<"#", "d", "e", "f", "i", "n", "e">>, 0) THEN <<>>
        ELSE IF ~(b > Len(<<"#", "d", "e", "f", "i", "n", "e">>) /\ b < Len(stripped) /\ IsIdentStart(At(stripped, b)))
        THEN <<>>
        ELSE <<[name |-> Slice(stripped, b, c),
                value |-> value,
                role |-> IF HasMarker(rest, <<"p", "a", "r">>) THEN "parameter" ELSE "global",
                type |-> infer_define_type(value),
                position |-> line_offset]>>

RECURSIVE ParseDefines(_, _)
\* the loop over section.split('\n') with its running line_offset
ParseDefines(lines, line_offset) ==
    IF lines = <<>> THEN <<>>
    ELSE DefineOfLine(Head(lines), line_offset)
         \o ParseDefines(Tail(lines), line_offset + Len(Head(lines)) + 1)

RECURSIVE SkipBlank(_, _)
\* the offset reached by a greedy [ \t]* that starts at offset i
SkipBlank(s, i) ==
    IF i < Len(s) /\ At(s, i) \in {" ", "\t"} THEN SkipBlank(s, i + 1) ELSE i

RECURSIVE JoinLines(_)
\* '\n'.join(lines)
JoinLines(lines) ==
    IF lines = <<>> THEN <<>>
    ELSE IF Len(lines) = 1 THEN lines[1]
    ELSE lines[1] \o <<"\n">> \o JoinLines(Tail(lines))

\* re.sub(r'^[ \t]*#.*$', blanks, text, flags=re.MULTILINE)
mask_directives(text) ==
    LET lines == SplitChar(text, "\n", 0)
        mask(line) ==
            IF StartsWith(line, <<"#">>, SkipBlank(line, 0))
            THEN Spaces(Len(line)) ELSE line
    IN  JoinLines([i \in 1..Len(lines) |-> mask(lines[i])])

RECURSIVE MaskBlockComments(_, _)
\* re.sub(r'/\*.*?\*/', blanks, text, flags=re.DOTALL) from offset p
MaskBlockComments(s, p) ==
    LET at == FirstIn(LAMBDA i : StartsWith(s, <<"/", "*">>, i)
                                 /\ Find(s, <<"*", "/">>, i + 2) # -1, p, Len(s))
        e == Find(s, <<"*", "/">>, at + 2)
    IN  IF at = -1 THEN Slice(s, p, Len(s))
        ELSE Slice(s, p, at) \o Spaces(e + 2 - at) \o MaskBlockComments(s, e + 2)

RECURSIVE MaskLineComments(_, _)
\* re.sub(r'//[^\n]*', blanks, text) from offset p
MaskLineComments(s, p) ==
    LET at == Find(s, <<"/", "/">>, p)
    IN  IF at = -1 THEN Slice(s, p, Len(s))
        ELSE Slice(s, p, at) \o Spaces(LineEnd(s, at) - at)
             \o MaskLineComments(s, LineEnd(s, at))

mask_comments(text) == MaskLineComments(MaskBlockComments(text, 0), 0)

-----------------------------------------------------------------------------
(* Global declarations: statements                                          *)

\* the scanner state shared by split_statements, split_top_level and
\* split_initializer
ScanStart ==
    [paren |-> 0, bracket |-> 0, brace |-> 0,
     in_string |-> FALSE, string_char |-> "", escape |-> FALSE]

\* the scanner state after character ch
ScanStep(st, ch) ==
    IF st.in_string
    THEN IF st.escape THEN [st EXCEPT !.escape = FALSE]
         ELSE IF ch = "\\" THEN [st EXCEPT !.escape = TRUE]
         ELSE IF ch = st.string_char THEN [st EXCEPT !.in_string = FALSE]
         ELSE st
    ELSE IF ch \in {"\"", "'"}
    THEN [st EXCEPT !.in_string = TRUE, !.string_char = ch]
    ELSE IF ch = "(" THEN [st EXCEPT !.paren = @ + 1]
    ELSE IF ch = ")" THEN [st EXCEPT !.paren = IF @ > 0 THEN @ - 1 ELSE 0]
    ELSE IF ch = "[" THEN [st EXCEPT !.bracket = @ + 1]
    ELSE IF ch = "]" THEN [st EXCEPT !.bracket = IF @ > 0 THEN @ - 1 ELSE 0]
    ELSE IF ch = "{" THEN [st EXCEPT !.brace = @ + 1]
    ELSE IF ch = "}" THEN [st EXCEPT !.brace = IF @ > 0 THEN @ - 1 ELSE 0]
    ELSE st

\* character ch, read in state st, is the delimiter at top level
IsTopLevel(st, ch, delimiter) ==
    LET after == ScanStep(st, ch)
    IN  /\ ~st.in_string
        /\ ch = delimiter
        /\ after.paren = 0 /\ after.bracket = 0 /\ after.brace = 0

\* the offset at which a statement starts, given the offset idx of the
\* semicolon that ended the statement before it
StartAfter(idx) == idx + 1

\* one iteration of a splitting loop, at offset idx: the scanner state st,
\* the offset from at which the part being read starts, and the parts
\* read so far as <<part, start offset>> pairs
SplitStep(text, delimiter, acc, idx) ==
    LET ch == At(text, idx)
        part == Strip(Slice(text, acc.from, idx))
    IN  IF IsTopLevel(acc.st, ch, delimiter)
        THEN [st |-> ScanStep(acc.st, ch),
              from |-> StartAfter(idx),
              parts |-> IF part # <<>>
                        THEN Append(acc.parts, [statement |-> part, start_idx |-> acc.from])
                        ELSE acc.parts]
        ELSE [acc EXCEPT !.st = ScanStep(acc.st, ch)]

\* the for loop shared by split_statements and split_top_level
SplitLoop(text, delimiter) ==
    FoldRange(LAMBDA acc, idx : SplitStep(text, delimiter, acc, idx),
              [st |-> ScanStart, from |-> 0, parts |-> <<>>], 0, Len(text))

\* the <<statement, start_idx>> pairs; what follows the last semicolon is
\* dropped
split_statements(text) == SplitLoop(text, ";").parts

\* the stripped, non-empty parts, the tail after the last delimiter included
split_top_level(text, delimiter) ==
    LET r == SplitLoop(text, delimiter)
        tail == Strip(Slice(text, r.from, Len(text)))
        parts == [i \in 1..Len(r.parts) |-> r.parts[i].statement]
    IN  IF tail # <<>> THEN Append(parts, tail) ELSE parts

\* one iteration of the loop of split_initializer, at offset idx: the
\* scanner state and the offset of the "=" found (-1: none yet)
InitializerStep(decl, acc, idx) ==
    IF acc.at # -1 THEN acc
    ELSE IF IsTopLevel(acc.st, At(decl, idx), "=") THEN [acc EXCEPT !.at = idx]
    ELSE [acc EXCEPT !.st = ScanStep(acc.st, At(decl, idx))]

\* <<name_part, value_part>>; a value_part of None is the empty text
split_initializer(decl) ==
    LET idx == FoldRange(LAMBDA acc, i : InitializerStep(decl, acc, i),
                         [st |-> ScanStart, at |-> -1], 0, Len(decl)).at
    IN  IF idx = -1 THEN <<Strip(decl), <<>>>>
        ELSE <<Strip(Slice(decl, 0, idx)), Strip(Slice(decl, idx + 1, Len(decl)))>>

RECURSIVE LastIdent(_, _, _)
\* re.findall(r'[A-Za-z_][A-Za-z0-9_]*', name_part)[-1] from offset p, with
\* the last identifier found so far; None is the empty text
LastIdent(s, p, last) ==
    IF p >= Len(s) THEN last
    ELSE IF IsIdentStart(At(s, p))
    THEN LastIdent(s, SkipWord(s, p), Slice(s, p, SkipWord(s, p)))
    ELSE LastIdent(s, p + 1, last)

extract_name(name_part) == LastIdent(name_part, 0, <<>>)

\* re.search(r'\w+\s*\([^)]*\)\s*$', stmt) and '=' not in stmt
IsPrototype(stmt) ==
    /\ \A i \in 1..Len(stmt) : stmt[i] # "="
    /\ \E o \in 0..(Len(stmt) - 1) :
          LET e == SkipSpaceBack(stmt, Len(stmt))
              w == SkipSpaceBack(stmt, o)
          IN  /\ At(stmt, o) = "("
              /\ e - 1 > o
              /\ At(stmt, e - 1) = ")"
              /\ \A k \in (o + 1)..(e - 2) : At(stmt, k) # ")"
              /\ w > 0
              /\ IsWord(At(stmt, w - 1))

RECURSIVE StripQualifiers(_)
\* re.sub(r'^\s*(?:(?:static|const|volatile)\s+)+', '', stmt)
StripQualifiers(stmt) ==
    LET a == SkipSpace(stmt, 0)
        hit == {q \in {<<"s", "t", "a", "t", "i", "c">>,
        <<"c", "o", "n", "s", "t">>,
        <<"v", "o", "l", "a", "t", "i", "l", "e">>} :
                   /\ StartsWith(stmt, q, a)
                   /\ a + Len(q) < Len(stmt)
                   /\ IsSpace(At(stmt, a + Len(q)))}
        q == CHOOSE q \in hit : TRUE
    IN  IF hit = {} THEN stmt
        ELSE StripQualifiers(Slice(stmt, SkipSpace(stmt, a + Len(q)), Len(stmt)))

\* PRIMITIVE_TYPES, less 'unsigned long': its pattern, made by re.escape
\* and the replacement of the escaped blank, asks for a backslash in the
\* text (see MatchUnsignedLong)
PrimitiveTypes ==
    {<<"i", "n", "t">>, <<"l", "o", "n", "g">>, <<"b", "o", "o", "l">>,
     <<"b", "o", "o", "l", "e", "a", "n">>, <<"f", "l", "o", "a", "t">>,
     <<"d", "o", "u", "b", "l", "e">>, <<"b", "y", "t", "e">>,
     <<"c", "h", "a", "r">>,
     <<"S", "t", "r", "i", "n", "g">>, <<"u", "i", "n", "t", "8", "_", "t">>,
     <<"i", "n", "t", "1", "6", "_", "t">>,
     <<"u", "i", "n", "t", "1", "6", "_", "t">>,
     <<"i", "n", "t", "3", "2", "_", "t">>,
     <<"u", "i", "n", "t", "3", "2", "_", "t">>}

RECURSIVE SkipChar(_, _, _)
\* the offset reached by a greedy run of character c from offset i
SkipChar(s, c, i) ==
    IF i < Len(s) /\ At(s, i) = c THEN SkipChar(s, c, i + 1) ELSE i

\* the pattern made from 'unsigned long':  unsigned\\s+long  , that is
\* "unsigned", a backslash, one or more "s", "long": the offset after it
\* at the start of the text, or -1
MatchUnsignedLong(s) ==
    LET head == <<"u", "n", "s", "i", "g", "n", "e", "d", "\\">>
        e == SkipChar(s, "s", Len(head))
    IN  IF StartsWith(s, head, 0) /\ e > Len(head) /\ StartsWith(s, <<"l", "o", "n", "g">>, e)
        THEN e + Len(<<"l", "o", "n", "g">>) ELSE -1

\* the offset after the type that primitive_match finds at the start of
\* the text (the type, a word boundary, whitespace, and a rest without a
\* line break), or -1
PrimitiveTypeEnd(s) ==
    LET ends == {Len(t) : t \in {t \in PrimitiveTypes : StartsWith(s, t, 0)}}
                \cup (IF MatchUnsignedLong(s) # -1 THEN {MatchUnsignedLong(s)} ELSE {})
        ok == {e \in ends :
                  /\ e < Len(s)
                  /\ IsSpace(At(s, e))
                  /\ SkipSpace(s, e) < Len(s)
                  /\ \A k \in SkipSpace(s, e)..(Len(s) - 1) : At(s, k) # "\n"}
    IN  IF ok = {} THEN -1 ELSE CHOOSE e \in ok : TRUE

RECURSIVE CollapseSpace(_, _)
\* re.sub(r'\s+', ' ', t) from offset p
CollapseSpace(t, p) ==
    IF p >= Len(t) THEN <<>>
    ELSE IF IsSpace(At(t, p)) THEN <<" ">> \o CollapseSpace(t, SkipSpace(t, p))
    ELSE <<At(t, p)>> \o CollapseSpace(t, p + 1)

normalize_type(type_name) == CollapseSpace(Strip(type_name), 0)

RECURSIVE SkipDeclClass(_, _)
\* the offset reached by a greedy [A-Za-z0-9_:<>]* from offset i
SkipDeclClass(s, i) ==
    IF i < Len(s) /\ (IsWord(At(s, i)) \/ At(s, i) \in {":", "<", ">"})
    THEN SkipDeclClass(s, i + 1) ELSE i

\* re.match(r'^[A-Za-z_][A-Za-z0-9_:<>]*\s+.+$', stmt, re.DOTALL)
IsOpaqueDeclaration(stmt) ==
    /\ stmt # <<>>
    /\ IsIdentStart(stmt[1])
    /\ LET c == SkipDeclClass(stmt, 1)
       IN  /\ c < Len(stmt)
           /\ IsSpace(At(stmt, c))
           /\ c + 1 < Len(stmt)

-----------------------------------------------------------------------------
(* Global declarations: the catalog                                         *)

\* s.rfind(c, 0, e): the greatest offset below e that holds c, or -1
RFind(s, c, e) ==
    LastIn(LAMBDA i : At(s, i) = c, 0, IF e > Len(s) THEN Len(s) ELSE e)

\* line_text: the line of the section that holds offset start_idx
LineText(section, start_idx) ==
    Slice(section, RFind(section, "\n", start_idx) + 1, LineEnd(section, start_idx))

\* the role that the markers of line_text give
RoleOfLine(line_text) ==
    IF HasMarker(line_text, <<"i", "n">>) THEN "input"
    ELSE IF HasMarker(line_text, <<"o", "u", "t">>) THEN "output"
    ELSE IF HasMarker(line_text, <<"p", "a", "r">>) THEN "parameter"
    ELSE "variable"

RECURSIVE CatalogDecls(_, _, _, _, _)
\* the loop over split_top_level(decls, ','): one record per declarator
CatalogDecls(decls, var_type, role, start_idx, acc) ==
    IF decls = <<>> THEN acc
    ELSE LET parts == split_initializer(Head(decls))
             var_name == extract_name(parts[1])
         IN  CatalogDecls(Tail(decls), var_type, role, start_idx,
                 IF var_name = <<>> THEN acc
                 ELSE DictPut(acc, [name |-> var_name,
                                    type |-> var_type,
                                    default |-> parts[2],
                                    role |-> role,
                                    alias |-> var_name,
                                    position |-> start_idx]))

RECURSIVE CatalogStatements(_, _, _)
\* the loop over split_statements(masked_section):
\* [variables, extra_declarations] after the statements stmts
CatalogStatements(section, stmts, acc) ==
    IF stmts = <<>> THEN acc
    ELSE LET stmt == Strip(Head(stmts).statement)
             start_idx == Head(stmts).start_idx
             role == RoleOfLine(LineText(section, start_idx))
             stmt_no_qual == StripQualifiers(stmt)
             e == PrimitiveTypeEnd(stmt_no_qual)
             var_type == normalize_type(Slice(stmt_no_qual, 0, e))
             decls == Strip(Slice(stmt_no_qual, SkipSpace(stmt_no_qual, e),
                                  Len(stmt_no_qual)))
         IN  CatalogStatements(section, Tail(stmts),
                 IF stmt = <<>> \/ StartsWith(stmt, <<"#">>, 0) THEN acc
                 ELSE IF IsPrototype(stmt) THEN acc
                 ELSE IF e # -1
                 THEN [acc EXCEPT !.variables =
                          CatalogDecls(split_top_level(decls, ","), var_type,
                                       role, start_idx, @)]
                 ELSE IF IsOpaqueDeclaration(stmt)
                 THEN [acc EXCEPT !.extra_declarations = Append(@, stmt \o <<";">>)]
                 ELSE acc)

\* what parse_global_section returns, cat being the state of the loop over
\* the statements at its end:
\* [variables, global_includes, defines, extra_declarations]
SectionResult(section, cat) ==
    [variables |-> cat.variables,
     global_includes |-> FindIncludes(section, 0),
     defines |-> ParseDefines(SplitChar(section, "\n", 0), 0),
     extra_declarations |-> cat.extra_declarations]

\* parse_global_section from the section left once the functions defined
\* before setup/loop are removed
ParseSection(section) ==
    SectionResult(section,
        CatalogStatements(section,
                          split_statements(mask_comments(mask_directives(section))),
                          [variables |-> <<>>, extra_declarations |-> <<>>]))

parse_global_section(global_section, funcs) ==
    ParseSection(RemoveFunctions(global_section, funcs))

RECURSIVE CommentLines(_, _)
\* the while loop of extract_leading_comment over the // lines from offset pos
CommentLines(s, pos) ==
    IF pos >= Len(s) THEN <<>>
    ELSE LET line_end == LineEnd(s, pos)
             line == Slice(s, pos, line_end)
             a == SkipSpace(line, 0)
         IN  IF StartsWith(line, <<"/", "/">>, a)
             THEN <<RStrip(Slice(line, SkipSpace(line, a + 2), Len(line)))>>
                  \o CommentLines(s, line_end + 1)
             ELSE <<>>

\* the comment that opens the sketch; None is the empty text
extract_leading_comment(s) ==
    LET i == SkipSpace(s, 0)
        end == Find(s, <<"*", "/">>, i + 2)
    IN  IF i >= Len(s) THEN <<>>
        ELSE IF StartsWith(s, <<"/", "*">>, i)
        THEN IF end = -1 THEN Strip(Slice(s, i + 2, Len(s)))
             ELSE Strip(Slice(s, i + 2, end))
        ELSE IF StartsWith(s, <<"/", "/">>, i)
        THEN Strip(JoinLines(CommentLines(s, i)))
        ELSE <<>>

\* the dictionary parse_arduino_code returns, g being what
\* parse_global_section returned
ResultDict(s, funcs, raw, g) ==
    [leading_comment |-> extract_leading_comment(s),
     variables |-> g.variables,
     functions |-> funcs,
     global_section_raw |-> raw,
     global_includes |-> g.global_includes,
     defines |-> g.defines,
     extra_declarations |-> g.extra_declarations]

\* parse_arduino_code once the functions and the raw global section are
\* known
ResultOf(s, funcs, raw) == ResultDict(s, funcs, raw, parse_global_section(raw, funcs))

\* the fact set of a sketch
parse_arduino_code(s) ==
    ResultOf(s, parse_functions(s), extract_global_section(s))

-----------------------------------------------------------------------------
(* The caller: variable edits and alias substitution (src/gui.py)           *)

Roles == {"variable", "input", "output", "parameter"}

\* re.match(r'^[a-zA-Z_][a-zA-Z0-9_]*$', new_alias) on the stripped text of
\* a line edit
IsIdentifier(s) ==
    /\ s # <<>>
    /\ IsIdentStart(s[1])
    /\ \A i \in 2..Len(s) : IsWord(s[i])

\* save_changes with the role and the default stored before the alias is
\* looked at: a refused edit keeps the old alias with the new role and default
save_changes_role_first(vs, i, new_role, alias_text, default_text) ==
    IF Strip(alias_text) = <<>> \/ ~IsIdentifier(Strip(alias_text))
    THEN [vs EXCEPT ![i] = [@ EXCEPT !.role = new_role, !.default = Strip(default_text)]]
    ELSE [vs EXCEPT ![i] = [@ EXCEPT !.role = new_role,
                                     !.alias = Strip(alias_text),
                                     !.default = Strip(default_text)]]

\* save_changes without its two early returns: the text of the alias line
\* edit is stored whatever it is
save_changes_unchecked(vs, i, new_role, alias_text, default_text) ==
    [vs EXCEPT ![i] = [@ EXCEPT !.role = new_role,
                                !.alias = Strip(alias_text),
                                !.default = Strip(default_text)]]

\* save_changes of the variable dialog for entry i of the mapping: both
\* early returns leave the mapping as it was
save_changes(vs, i, new_role, alias_text, default_text) ==
    LET new_alias == Strip(alias_text)
        new_default == Strip(default_text)
    IN  IF new_alias = <<>> THEN vs
        ELSE IF ~IsIdentifier(new_alias) THEN vs
        ELSE [vs EXCEPT ![i] = [@ EXCEPT !.role = new_role,
                                         !.alias = new_alias,
                                         !.default = new_default]]

\* the text var_name occurs at offset p of s, inside a longer word or not
OccursAt(s, var_name, p) == StartsWith(s, var_name, p)

\* the pattern \bNAME\b matches at offset p of s: NAME is made of word
\* characters, so both boundaries ask for a non-word neighbour or an end
WordAt(s, var_name, p) ==
    /\ StartsWith(s, var_name, p)
    /\ p = 0 \/ ~IsWord(At(s, p - 1))
    /\ p + Len(var_name) = Len(s) \/ ~IsWord(At(s, p + Len(var_name)))

RECURSIVE re_sub_word(_, _, _, _)
\* re.sub(r'\b' + var_name + r'\b', alias, text) from offset p
re_sub_word(text, var_name, alias, p) ==
    LET at == FirstIn(LAMBDA i : WordAt(text, var_name, i), p, Len(text))
    IN  IF at = -1 THEN Slice(text, p, Len(text))
        ELSE Slice(text, p, at) \o alias
             \o re_sub_word(text, var_name, alias, at + Len(var_name))

\* one iteration of the loop over self.variables.items()
SubstituteStep(vs, text, i) ==
    IF vs[i + 1].alias # vs[i + 1].name
    THEN re_sub_word(text, vs[i + 1].name, vs[i + 1].alias, 0)
    ELSE text

\* the loop over self.variables.items(), in mapping order, on one body
substitute_aliases(vs, text) ==
    FoldRange(LAMBDA t, i : SubstituteStep(vs, t, i), text, 0, Len(vs))

-----------------------------------------------------------------------------
(* The emitter (src/generator.py): text helpers                             *)

\* html.escape of one character (quote=True)
EscapeChar(c) ==
    CASE c = "&" -> <<"&", "a", "m", "p", ";">>
      [] c = "<" -> <<"&", "l", "t", ";">>
      [] c = ">" -> <<"&", "g", "t", ";">>
      [] c = "\"" -> <<"&", "q", "u", "o", "t", ";">>
      [] c = "'" -> <<"&", "#", "x", "2", "7", ";">>
      [] OTHER -> <<c>>

\* html.escape(s)
html_escape(s) == Flatten([i \in 1..Len(s) |-> EscapeChar(s[i])])

DigitChars == <<"0", "1", "2", "3", "4", "5", "6", "7", "8", "9">>

RECURSIVE Decimal(_)
\* '{}'.format(n) for an integer n >= 0
Decimal(n) ==
    IF n < 10 THEN <<DigitChars[n + 1]>>
    ELSE Append(Decimal(n \div 10), DigitChars[(n % 10) + 1])

\* the offset of the first line break of s at or after offset a, or -1
LineBreak(s, a) == FirstIn(LAMBDA i : At(s, i) \in {"\n", "\r"}, a, Len(s))

RECURSIVE splitlines(_, _)
\* str.splitlines() of s[a:]: breaks at \n, \r and \r\n, and no empty
\* last line after a final break
splitlines(s, a) ==
    LET e == LineBreak(s, a)
        after == IF StartsWith(s, <<"\r", "\n">>, e) THEN e + 2 ELSE e + 1
    IN  IF a >= Len(s) THEN <<>>
        ELSE IF e = -1 THEN <<Slice(s, a, Len(s))>>
        ELSE <<Slice(s, a, e)>> \o splitlines(s, after)

\* '\n'.join(line.rstrip() for line in text.splitlines())
rstrip_lines(text) ==
    LET lines == splitlines(text, 0)
    IN  JoinLines([i \in 1..Len(lines) |-> RStrip(lines[i])])

\* "if(En)\n{\n" + loop_code with the closing brace left out
enable_wrap_open(body) ==
    <<"i", "f", "(", "E", "n", ")", "\n", "{", "\n">> \o body

\* "if(En)\n{\n" + loop_code + "\n}"
enable_wrap(body) ==
    <<"i", "f", "(", "E", "n", ")", "\n", "{", "\n">> \o body \o <<"\n", "}">>

\* TYPE_MAPPING of constants.py
TYPE_MAPPING ==
    << <<<<"i", "n", "t">>, "IntegerDataType">>,
       <<<<"l", "o", "n", "g">>, "LongDataType">>,
       <<<<"u", "n", "s", "i", "g", "n", "e", "d", " ", "l", "o", "n", "g">>, "LongDataType">>,
       <<<<"b", "o", "o", "l">>, "BooleanDataType">>,
       <<<<"b", "o", "o", "l", "e", "a", "n">>, "BooleanDataType">>,
       <<<<"f", "l", "o", "a", "t">>, "FloatDataType">>,
       <<<<"d", "o", "u", "b", "l", "e">>, "FloatDataType">>,
       <<<<"b", "y", "t", "e">>, "ByteDataType">>,
       <<<<"c", "h", "a", "r">>, "CharDataType">>,
       <<<<"S", "t", "r", "i", "n", "g">>, "StringDataType">>,
       <<<<"u", "i", "n", "t", "8", "_", "t">>, "ByteDataType">>,
       <<<<"i", "n", "t", "1", "6", "_", "t">>, "IntegerDataType">>,
       <<<<"u", "i", "n", "t", "1", "6", "_", "t">>, "IntegerDataType">>,
       <<<<"i", "n", "t", "3", "2", "_", "t">>, "LongDataType">>,
       <<<<"u", "i", "n", "t", "3", "2", "_", "t">>, "LongDataType">> >>

\* TYPE_MAPPING.get(var_type, 'IntegerDataType')
get_type_class_name(var_type) ==
    IF \E i \in 1..Len(TYPE_MAPPING) : TYPE_MAPPING[i][1] = var_type
    THEN TYPE_MAPPING[CHOOSE i \in 1..Len(TYPE_MAPPING) : TYPE_MAPPING[i][1] = var_type][2]
    ELSE "IntegerDataType"

\* str(uuid.uuid4()): the k-th identifier drawn in a render whose random
\* source is seed; two draws of one render differ
uuid4(seed, k) == <<"u">> \o Decimal(seed) \o <<"-">> \o Decimal(k)

-----------------------------------------------------------------------------
(* The emitter: the lines of the document                                   *)
(*                                                                          *)
(* A document is the sequence of its lines.  A line records what its        *)
(* format string is given: the number of leading tabs, the attributes       *)
(* (id and idref are the counter values printed in decimal, 0 for an        *)
(* attribute the line does not have) and the text between the tags.         *)

Line(kind, depth, id, name, type, env, idref, text) ==
    [kind |-> kind, depth |-> depth, id |-> id, name |-> name, type |-> type,
     env |-> env, idref |-> idref, text |-> text]

\* <sixx.object sixx.id sixx.name sixx.type sixx.env >
Open(depth, id, name, type, env) == Line("open", depth, id, name, type, env, 0, <<>>)

\* <sixx.object sixx.id sixx.name sixx.type sixx.env >text</sixx.object>
Leaf(depth, id, name, type, env, text) == Line("leaf", depth, id, name, type, env, 0, text)

\* <sixx.object sixx.name sixx.idref />
Ref(depth, name, idref) == Line("ref", depth, 0, name, "", "", idref, <<>>)

\* <sixx.object sixx.name sixx.type sixx.env="Core" />
Flag(depth, name, type) == Line("flag", depth, 0, name, type, "Core", 0, <<>>)

\* </sixx.object>
Close(depth) == Line("close", depth, 0, "", "", "", 0, <<>>)

instance_coll_id == 15

comment_str_id == 18

\* create_sixx_data_type: the instance id is the next draw of the counter,
\* which stands at current_id
create_sixx_data_type(var_type, type_id, coll_id, current_id) ==
    << Open(4, type_id, "type", get_type_class_name(var_type) \o " class", "Arduino"),
       Open(5, coll_id, "instanceCollection", "OrderedCollection", "Core"),
       Open(6, current_id + 1, "", get_type_class_name(var_type), "Arduino"),
       Close(6),
       Close(5),
       Close(4) >>

\* the entry of one pin with the random identifier in place of the name
PinXmlUuidName(c, code_block_id, var_type, pin_name, is_input, id_value, pin_uuid) ==
    << Open(3, c + 1, "", "InputsOutputsAdaptorForUserBlock", "Arduino"),
       Open(4, c + 2, "object", "UniversalBlockInputOutput", "Arduino"),
       Leaf(5, c + 3, "id", "SmallInteger", "Core", Decimal(id_value)),
       Ref(5, "block", code_block_id) >>
    \o create_sixx_data_type(var_type, c + 4, instance_coll_id, c + 6)
    \o << Flag(5, "isInput", IF is_input THEN "True" ELSE "False"),
          Leaf(5, c + 5, "name", "String", "Core", pin_uuid),
          Flag(5, "isNot", "False"),
          Ref(5, "nameCash", c + 5),
          Close(4),
          Ref(4, "comment", comment_str_id),
          Leaf(4, c + 6, "id", "String", "Core", pin_uuid),
          Close(3) >>

\* the entry of one input or output pin; the counter stands at c before the
\* six draws of the entry (adaptor, object, id source, type, name, uuid
\* object) and the draw of create_sixx_data_type
PinXml(c, code_block_id, var_type, pin_name, is_input, id_value, pin_uuid) ==
    << Open(3, c + 1, "", "InputsOutputsAdaptorForUserBlock", "Arduino"),
       Open(4, c + 2, "object", "UniversalBlockInputOutput", "Arduino"),
       Leaf(5, c + 3, "id", "SmallInteger", "Core", Decimal(id_value)),
       Ref(5, "block", code_block_id) >>
    \o create_sixx_data_type(var_type, c + 4, instance_coll_id, c + 6)
    \o << Flag(5, "isInput", IF is_input THEN "True" ELSE "False"),
          Leaf(5, c + 5, "name", "String", "Core", pin_name),
          Flag(5, "isNot", "False"),
          Ref(5, "nameCash", c + 5),
          Close(4),
          Ref(4, "comment", comment_str_id),
          Leaf(4, c + 6, "id", "String", "Core", pin_uuid),
          Close(3) >>

\* the running state of a render: the counter of next_id, the number of
\* uuid4 draws made, and the lines of the section being written
PinStep(acc, seed, code_block_id, var_type, pin_name, is_input, id_value) ==
    [acc EXCEPT
        !.current_id = @ + 7,
        !.uuids = @ + 1,
        !.lines = @ \o PinXml(acc.current_id, code_block_id, var_type, pin_name,
                              is_input, id_value, uuid4(seed, acc.uuids))]

\* the variables of the mapping with the given role, in mapping order
WithRole(vs, role) == SelectSeq(vs, LAMBDA v : v.role = role)

\* one step of list.sort(key=position): entry x goes behind every entry
\* whose position is not greater (the sort is stable)
InsertByPosition(sorted, x) ==
    LET k == Cardinality({i \in 1..Len(sorted) : sorted[i].position <= x.position})
    IN  SubSeq(sorted, 1, k) \o <<x>> \o SubSeq(sorted, k + 1, Len(sorted))

\* list.sort(key=lambda x: position of x)
SortByPosition(list) ==
    FoldRange(LAMBDA sorted, i : InsertByPosition(sorted, list[i + 1]), <<>>, 0, Len(list))

\* the default a parameter entry shows
ParamDefault(info) ==
    LET default_val == IF info.type = <<"S", "t", "r", "i", "n", "g">> THEN info.default
                       ELSE IF info.default = <<>> THEN <<"0">>
                       ELSE info.default
    IN  IF info.type \in {<<"b", "o", "o", "l">>, <<"b", "o", "o", "l", "e", "a", "n">>}
        THEN (IF Lower(Strip(default_val)) \in {<<"t", "r", "u", "e">>,
        <<"1">>} THEN <<"1">> ELSE <<"0">>)
        ELSE default_val

\* the line that holds the default of a parameter
ParamDefaultLeaf(info, default_val_id) ==
    IF info.type = <<"S", "t", "r", "i", "n", "g">>
    THEN Leaf(6, default_val_id, "stringDefaultValue", "String", "Core",
              html_escape(ParamDefault(info)))
    ELSE IF info.type \in {<<"f", "l", "o", "a", "t">>, <<"d", "o", "u", "b", "l", "e">>}
    THEN Leaf(6, default_val_id, "numberDefaultValue", "Float", "Core", ParamDefault(info))
    ELSE Leaf(6, default_val_id, "numberDefaultValue", "SmallInteger", "Core", ParamDefault(info))

\* the entry of one parameter: eight draws of the counter (adaptor,
\* parameter, name, type, default, comment, uuid of the parameter, uuid of
\* the adaptor), the draw of create_sixx_data_type, and two uuid4 draws
ParamStep(acc, seed, info) ==
    LET c == acc.current_id
    IN  [acc EXCEPT
         !.current_id = c + 9,
         !.uuids = @ + 2,
         !.lines = @ \o
            << Open(4, c + 1, "", "InputsOutputsAdaptorForUserBlock", "Arduino"),
               Open(5, c + 2, "object", "UserBlockParametr", "Arduino"),
               Leaf(6, c + 3, "name", "String", "Core", info.alias) >>
            \o create_sixx_data_type(info.type, c + 4, instance_coll_id, c + 8)
            \o << Flag(6, "hasDefaultValue", "True"),
                  ParamDefaultLeaf(info, c + 5),
                  Flag(6, "hasUpRange", "False"),
                  Flag(6, "hasDownRange", "False"),
                  Leaf(6, c + 6, "comment", "String", "Core", <<>>),
                  Leaf(6, c + 7, "id", "String", "Core", uuid4(seed, acc.uuids)),
                  Close(5),
                  Leaf(5, c + 8, "id", "String", "Core", uuid4(seed, acc.uuids + 1)),
                  Close(4) >>]

\* the parameter entry a variable of role parameter gives
ParamOfVariable(v) ==
    [position |-> v.position, type |-> v.type, alias |-> v.alias, default |-> v.default]

\* the parameter entry a #define of role parameter gives
ParamOfDefine(d) ==
    [position |-> d.position, type |-> d.type, alias |-> d.name, default |-> d.value]

\* every #define is a declaration, whatever its role
IsAnyDefine(d) == TRUE

\* the #defines the declare section shows: those the parameter list did
\* not take
IsDeclaredDefine(d) == d.role # "parameter"

\* params_list: the variables of role parameter in mapping order, then the
\* #defines of role parameter, sorted by position
params_list(vs, ds) ==
    LET pv == WithRole(vs, "parameter")
        pd == SelectSeq(ds, LAMBDA d : d.role = "parameter")
    IN  SortByPosition([i \in 1..Len(pv) |-> ParamOfVariable(pv[i])]
                       \o [i \in 1..Len(pd) |-> ParamOfDefine(pd[i])])

\* one entry of the declare section: four draws of the counter
DeclStep(acc, name_text, last_part, first_part) ==
    LET c == acc.current_id
    IN  [acc EXCEPT
            !.current_id = c + 4,
            !.lines = @ \o
               << Open(5, c + 1, "", "CodeUserBlockDeclareStandartBlock", "Arduino"),
                  Leaf(6, c + 2, "name", "String", "Core", name_text),
                  Leaf(6, c + 3, "lastPart", "String", "Core", last_part),
                  Leaf(6, c + 4, "firstPart", "String", "Core", first_part),
                  Close(5) >>]

\* "#define {} {}".format(name.strip(), value.strip()).rstrip()
DefineLine(d) ==
    RStrip(<<"#", "d", "e", "f", "i", "n", "e">> \o <<" ">> \o Strip(d.name) \o <<" ">> \o Strip(d.value))

\* the entry of a plain variable
VariableDeclStep(acc, v) ==
    DeclStep(acc,
             Strip(v.alias),
             IF v.default # <<>>
             THEN <<" ", "=", " ">> \o html_escape(Strip(v.default)) \o <<";">>
             ELSE <<";">>,
             Strip(v.type))

\* the declare section: #include lines, #defines that are not parameters,
\* opaque declarations, then the plain variables in mapping order
declare_xml(acc, vs, incs, ds, extras) ==
    LET dd == SelectSeq(ds, IsDeclaredDefine)
        vars_list == WithRole(vs, "variable")
        a1 == FoldRange(LAMBDA a, i : DeclStep(a, <<>>, <<>>, html_escape(Strip(incs[i + 1]))),
                        acc, 0, Len(incs))
        a2 == FoldRange(LAMBDA a, i : DeclStep(a, <<>>, <<>>, html_escape(DefineLine(dd[i + 1]))),
                        a1, 0, Len(dd))
        a3 == FoldRange(LAMBDA a, i : DeclStep(a, <<>>, <<>>, html_escape(Strip(extras[i + 1]))),
                        a2, 0, Len(extras))
    IN  FoldRange(LAMBDA a, i : VariableDeclStep(a, vars_list[i + 1]), a3, 0, Len(vars_list))

\* the entry of one parameter of a user function: three draws
FuncParamStep(acc, param) ==
    LET c == acc.current_id
    IN  [acc EXCEPT
            !.current_id = c + 3,
            !.lines = @ \o
               << Open(8, c + 1, "", "CodeUserBlockFunctionParametr", "Arduino"),
                  Leaf(9, c + 2, "declare", "String", "Core", param.type),
                  Leaf(9, c + 3, "name", "String", "Core", param.name),
                  Close(8) >>]

\* the entry of one user function: six draws, then its parameters
FuncStep(acc, f) ==
    LET c == acc.current_id
        head == [acc EXCEPT
                    !.current_id = c + 6,
                    !.lines = @ \o
                       << Open(5, c + 1, "", "CodeUserBlockFunction", "Arduino"),
                          Leaf(6, c + 2, "functionBody", "String", "Core",
                               html_escape(rstrip_lines(f.body))),
                          Open(6, c + 3, "parsesFunctionName", "CodeUserBlockFunctionName", "Arduino"),
                          Leaf(7, c + 4, "declare", "String", "Core", f.return_type),
                          Leaf(7, c + 5, "name", "String", "Core", f.name),
                          Open(7, c + 6, "parametrs", "OrderedCollection", "Core") >>]
        body == FoldRange(LAMBDA a, i : FuncParamStep(a, f.parsed_params[i + 1]),
                          head, 0, Len(f.parsed_params))
    IN  [body EXCEPT !.lines = @ \o <<Close(7), Close(6), Close(5)>>]

\* the state of a render at its start: six draws of the counter (root,
\* code block, main uuid, blocks, label, inputs) and one of uuid4 are made
RenderStart == [current_id |-> 6, uuids |-> 1, lines |-> <<>>, sections |-> <<>>]

\* the counter starts again at 6 for every section
Section_restart(acc, k) ==
    [acc EXCEPT !.sections = Append(@, [end_id |-> acc.current_id, lines |-> acc.lines]),
                !.current_id = 6 + k,
                !.lines = <<>>]

\* a section ends: its lines are kept with the value of the counter at its
\* end, k draws of the counter are made for the nodes between it and the
\* next section, and the lines of that section are collected afresh
Section(acc, k) ==
    [acc EXCEPT !.sections = Append(@, [end_id |-> acc.current_id, lines |-> acc.lines]),
                !.current_id = @ + k,
                !.lines = <<>>]

\* the loop over inputs_list or outputs_list
PinLoop(acc, seed, pins, is_input, id_base) ==
    FoldRange(LAMBDA a, i : PinStep(a, seed, 2, pins[i + 1].type, pins[i + 1].alias,
                                    is_input, id_base + i * 1000),
              acc, 0, Len(pins))

\* the entry of the En pin, when asked for
EnableStep(acc, seed, enable) ==
    IF enable
    THEN PinStep(acc, seed, 2, <<"b", "o", "o", "l", "e", "a", "n">>, <<"E", "n">>,
                 TRUE, 119328430)
    ELSE acc

\* inputs_xml: the En pin, then the inputs sorted by position
inputs_xml(vs, enable, seed) ==
    Section(PinLoop(EnableStep(RenderStart, seed, enable), seed,
                    SortByPosition(WithRole(vs, "input")), TRUE,
                    IF enable THEN 119329430 ELSE 119328430),
            1)

\* outputs_xml: the outputs sorted by position
outputs_xml(acc, vs, seed) ==
    Section(PinLoop(acc, seed, SortByPosition(WithRole(vs, "output")), FALSE, 153438280), 9)

\* the loop over a list of parameter entries
ParamLoop(acc, seed, plist) ==
    FoldRange(LAMBDA a, i : ParamStep(a, seed, plist[i + 1]), acc, 0, Len(plist))

\* params_xml
params_xml(acc, vs, ds, seed) == Section(ParamLoop(acc, seed, params_list(vs, ds)), 6)

\* functions_xml
functions_xml(acc, fs) ==
    Section(FoldRange(LAMBDA a, i : FuncStep(a, fs[i + 1]), acc, 0, Len(fs)), 1)

\* the document put together from the sections r.sections (inputs,
\* outputs, parameters, declarations, functions), each with the value the
\* counter had at its end
Document(name, description, setup_trimmed, loop_trimmed, main_uuid, r) ==
    << Line("xml", 0, 0, "", "", "", 0, <<>>),
       Open(0, 1, "", "BlocksLibraryElement", "Arduino"),
       Open(1, 2, "typeClass", "CodeUserBlock", "Arduino"),
       Leaf(2, 3, "id", "String", "Core", main_uuid),
       Leaf(2, 4, "blocks", "OrderedCollection", "Core", <<>>),
       Leaf(2, 5, "label", "String", "Core", name),
       Open(2, 6, "inputs", "OrderedCollection", "Core") >>
    \o r.sections[1].lines
    \o << Close(2),
          Open(2, r.sections[1].end_id + 1, "outputs", "OrderedCollection", "Core") >>
    \o r.sections[2].lines
    \o << Close(2),
          Leaf(2, r.sections[2].end_id + 1, "variables", "OrderedCollection", "Core", <<>>),
          Leaf(2, r.sections[2].end_id + 2, "name", "String", "Core", name),
          Open(2, r.sections[2].end_id + 3, "info", "Text", "Core"),
          Leaf(3, r.sections[2].end_id + 4, "string", "String", "Core", html_escape(description)),
          Open(3, r.sections[2].end_id + 5, "runs", "RunArray", "Core"),
          Open(4, r.sections[2].end_id + 6, "runs", "Array", "Core"),
          Leaf(5, r.sections[2].end_id + 7, "", "SmallInteger", "Core", <<"5", "0">>),
          Close(4),
          Open(4, r.sections[2].end_id + 8, "values", "Array", "Core"),
          Flag(5, "", "UndefinedObject"),
          Close(4),
          Close(3),
          Close(2),
          Open(2, r.sections[2].end_id + 9, "parametrs", "OrderedCollection", "Core") >>
    \o r.sections[3].lines
    \o << Close(2),
          Open(2, r.sections[3].end_id + 1, "loopCodePart", "CodeUserBlockLoopCodePart", "Arduino"),
          Leaf(3, r.sections[3].end_id + 2, "code", "String", "Core", html_escape(loop_trimmed)),
          Close(2),
          Open(2, r.sections[3].end_id + 3, "setupCodePart", "CodeUserBlockSetupCodePart", "Arduino"),
          Leaf(3, r.sections[3].end_id + 4, "code", "String", "Core", html_escape(setup_trimmed)),
          Close(2),
          Open(2, r.sections[3].end_id + 5, "declareCodePart", "CodeUserBlockDeclareCodePart", "Arduino"),
          Open(3, r.sections[3].end_id + 6, "code", "OrderedCollection", "Core") >>
    \o r.sections[4].lines
    \o << Close(3),
          Close(2),
          Open(2, r.sections[4].end_id + 1, "functionCodePart", "CodeUserBlockFunctuinCodePart", "Arduino"),
          Open(3, r.sections[4].end_id + 2, "code", "OrderedCollection", "Core") >>
    \o r.sections[5].lines
    \o << Close(3),
          Close(2),
          Leaf(2, r.sections[5].end_id + 1, "userLibraries", "OrderedCollection", "Core", <<>>),
          Flag(2, "notCanManyUse", "False"),
          Close(1),
          Close(0) >>

\* create_ubi_xml_sixx: the document, for the random source seed
create_ubi_xml_sixx(name, description, vs, fs, incs, ds, extras, setup_text, loop_text, enable, seed) ==
    Document(name, description,
             rstrip_lines(setup_text),
             IF enable THEN enable_wrap(rstrip_lines(loop_text)) ELSE rstrip_lines(loop_text),
             uuid4(seed, 0),
             functions_xml(
                 Section(declare_xml(params_xml(outputs_xml(inputs_xml(vs, enable, seed),
                                                            vs, seed),
                                                vs, ds, seed),
                                     vs, incs, ds, extras),
                         2),
                 fs))

-----------------------------------------------------------------------------
(* Body extraction as a pure function of the text: the inputs               *)

MaxBody == 4

RECURSIVE StringsUpTo(_, _)
\* the texts over alphabet A of at most n characters
StringsUpTo(A, n) ==
    IF n = 0 THEN {<<>>}
    ELSE LET S == StringsUpTo(A, n - 1)
         IN  S \cup {Append(t, c) : t \in S, c \in A}

SP == <<" ">>

\* what precedes the body: entry points in several spellings, a user
\* function, and texts that only resemble an entry point
BodyHeaders ==
    { <<"v", "o", "i", "d">> \o SP \o <<"s", "e", "t", "u", "p">> \o <<"(", ")", "{">>,
      <<"v", "o", "i", "d">> \o SP \o <<"l", "o", "o", "p">> \o <<"(", ")", " ", "{">>,
      <<"x", " ">> \o <<"v", "o", "i", "d">> \o <<" ", " ">> \o <<"l", "o", "o", "p">> \o <<" ", "(", " ", ")", "\n", "{">>,
      <<"v", "o", "i", "d">> \o SP \o <<"l", "o", "o", "p">> \o <<"(", ")", "{", "}", "\n">> \o <<"v", "o", "i", "d">> \o SP \o <<"s", "e", "t", "u", "p">> \o <<"(", ")", "{">>,
      <<"i", "n", "t">> \o SP \o <<"f", "(", ")", "{">>,
      <<"v", "o", "i", "d">> \o SP \o <<"g", "(", ")", "{", "}", " ">> \o <<"v", "o", "i", "d">> \o SP \o <<"l", "o", "o", "p">> \o <<"(", ")", "{">>,
      <<"v", "o", "i", "d">> \o SP \o <<"s", "e", "t", "u", "p">>,
      <<"v", "o", "i", "d">> \o <<"l", "o", "o", "p">> \o <<"(", ")", "{">>,
      <<>> }

BodyTexts ==
    {h \o b : h \in BodyHeaders, b \in StringsUpTo({"{", "}", "x", " "}, MaxBody)}

\* no file at the destination path
NoFile == [exists |-> FALSE, content |-> <<>>]

\* no handler has run
NoCall == [handler |-> "", raised |-> "", ok |-> FALSE, info |-> ""]

\* the fields of the window before any extraction
BlankFields ==
    /\ leading_comment = <<>>
    /\ setup_code = <<>>
    /\ loop_code = <<>>
    /\ global_section_raw = <<>>
    /\ functions = <<>>
    /\ variables = <<>>
    /\ global_includes = <<>>
    /\ defines = <<>>
    /\ extra_declarations = <<>>
    /\ enable_input = FALSE
    /\ xml = <<>>
    /\ xml_prev = <<>>
    /\ edits = 0
    /\ cli_description = <<>>
    /\ outcome = NoCall

\* the fields of the caller before any extraction
Blank ==
    /\ BlankFields
    /\ dest_file = NoFile
    /\ block_name = <<"B">>
    /\ block_description = <<>>

InitBody ==
    /\ code \in BodyTexts
    /\ phase = "text"
    /\ Blank

\* extract_global_section(code), as parse_arduino_code calls it
ExtractGlobalSection ==
    /\ phase = "text"
    /\ global_section_raw' = extract_global_section(code)
    /\ phase' = "global"
    /\ UNCHANGED <<application, code, block_name, block_description, leading_comment,
                   setup_code, loop_code, functions, variables,
                   global_includes, defines, extra_declarations,
                   enable_input, xml, xml_prev, edits>>

\* parse_functions(code), as parse_arduino_code calls it
ParseFunctions ==
    /\ phase = "global"
    /\ functions' = parse_functions(code)
    /\ phase' = "functions"
    /\ UNCHANGED <<application, code, block_name, block_description, leading_comment,
                   setup_code, loop_code, global_section_raw, variables,
                   global_includes, defines, extra_declarations,
                   enable_input, xml, xml_prev, edits>>

\* extract_function_body(code, 'setup') and (code, 'loop'), as the
\* generate handlers call them
ExtractBodies ==
    /\ phase = "functions"
    /\ setup_code' = extract_function_body(code, <<"s", "e", "t", "u", "p">>)
    /\ loop_code' = extract_function_body(code, <<"l", "o", "o", "p">>)
    /\ phase' = "bodies"
    /\ UNCHANGED <<application, code, block_name, block_description, leading_comment,
                   global_section_raw, functions, variables,
                   global_includes, defines, extra_declarations,
                   enable_input, xml, xml_prev, edits>>

NextBody == ExtractGlobalSection \/ ParseFunctions \/ ExtractBodies

SpecBody == InitBody /\ [][NextBody]_vars

-----------------------------------------------------------------------------
(* Claims about body extraction                                             *)

\* t is s without its leading and trailing whitespace
IsTrimOf(t, s) ==
    \/ /\ t = <<>>
       /\ \A i \in 1..Len(s) : IsSpace(s[i])
    \/ \E a \in 1..Len(s) : \E e \in a..Len(s) :
          /\ t = SubSeq(s, a, e)
          /\ ~IsSpace(s[a]) /\ ~IsSpace(s[e])
          /\ \A i \in 1..(a - 1) : IsSpace(s[i])
          /\ \A i \in (e + 1)..Len(s) : IsSpace(s[i])

\* the text s declares function func_name: "void", whitespace, the name,
\* optional whitespace and an opening parenthesis occur at some offset
DeclaresEntry(s, func_name) ==
    \E p \in 0..Len(s) : \E q \in (p + 5)..Len(s) : \E r \in q..Len(s) :
        /\ StartsWith(s, <<"v", "o", "i", "d">>, p)
        /\ \A k \in (p + 4)..(q - 1) : IsSpace(At(s, k))
        /\ StartsWith(s, func_name, q)
        /\ r >= q + Len(func_name)
        /\ \A k \in (q + Len(func_name))..(r - 1) : IsSpace(At(s, k))
        /\ StartsWith(s, <<"(">>, r)

\* C4: for a text that declares neither setup nor loop, both extracted
\* bodies are empty and the global section is the whole text, trimmed
C4_NoEntryPoints ==
    (phase = "bodies" /\ ~DeclaresEntry(code, <<"s", "e", "t", "u", "p">>) /\ ~DeclaresEntry(code, <<"l", "o", "o", "p">>))
        => /\ setup_code = <<>>
           /\ loop_code = <<>>
           /\ IsTrimOf(global_section_raw, code)

\* a text with no entry point whose ends carry whitespace and which holds
\* a brace pair has been through all three extractions
C4_Witness ==
    /\ phase = "bodies"
    /\ ~DeclaresEntry(code, <<"s", "e", "t", "u", "p">>) /\ ~DeclaresEntry(code, <<"l", "o", "o", "p">>)
    /\ global_section_raw # <<>>
    /\ global_section_raw # code
    /\ \E i \in 1..Len(code) : code[i] = "{"

\* the nesting depth after the characters at offsets start..(q - 1), the
\* opening brace before offset start counted
DepthAt(s, start, q) ==
    1 + Cardinality({i \in start..(q - 1) : At(s, i) = "{"})
      - Cardinality({i \in start..(q - 1) : At(s, i) = "}"})

\* offset q holds the brace that closes the body opened before offset start
ClosesAt(s, start, q) ==
    /\ q < Len(s)
    /\ DepthAt(s, start, q + 1) = 0
    /\ \A k \in start..q : DepthAt(s, start, k) > 0

\* the body that exact brace matching gives for the brace before offset start
MatchedBody(s, start, t) ==
    IF \E q \in start..(Len(s) - 1) : ClosesAt(s, start, q)
    THEN LET q == CHOOSE q \in start..(Len(s) - 1) : ClosesAt(s, start, q)
         IN  IsTrimOf(t, Slice(s, start, q))
    ELSE t = <<>>

\* C5: an extracted body is the trimmed text between the opening brace and
\* the brace that returns the depth to zero, and is empty when no brace does
C5_BraceMatching ==
    /\ phase = "bodies" =>
          /\ SearchEntry(code, <<"s", "e", "t", "u", "p">>, 0) # -1 =>
                MatchedBody(code, SearchEntry(code, <<"s", "e", "t", "u", "p">>, 0), setup_code)
          /\ SearchEntry(code, <<"l", "o", "o", "p">>, 0) # -1 =>
                MatchedBody(code, SearchEntry(code, <<"l", "o", "o", "p">>, 0), loop_code)
    /\ phase \in {"functions", "bodies"} =>
          \A i \in 1..Len(FindFuncs(code, 0)) :
              LET m == FindFuncs(code, 0)[i]
              IN  m.name \notin {<<"s", "e", "t", "u", "p">>, <<"l", "o", "o", "p">>} =>
                     /\ m.name \in Names(functions)
                     /\ MatchedBody(code, m.end, functions[IndexOf(functions, m.name)].body)

\* a loop body with a nested pair, followed by text after the closing
\* brace, was extracted whole
C5_Witness ==
    /\ phase = "bodies"
    /\ loop_code = <<"{", "}">>
    /\ code[Len(code)] = "x"

\* a body whose closing brace is missing gave the empty string
C5_WitnessUnterminated ==
    /\ phase = "bodies"
    /\ SearchEntry(code, <<"l", "o", "o", "p">>, 0) # -1
    /\ Len(code) > SearchEntry(code, <<"l", "o", "o", "p">>, 0) + 2
    /\ loop_code = <<>>
    /\ \A q \in 0..(Len(code) - 1) : ~ClosesAt(code, SearchEntry(code, <<"l", "o", "o", "p">>, 0), q)

-----------------------------------------------------------------------------
(* Extraction of whole sketches: the inputs                                 *)

\* the trailing comments a declaration line is given: none, the short
\* forms and the long forms
Markers ==
    { <<>>,
      <<" ", "/", "/", " ">> \o <<"i", "n">>,
      <<" ", "/", "/", " ">> \o <<"o", "u", "t">>,
      <<" ", "/", "/", " ">> \o <<"p", "a", "r">>,
      <<" ", "/", "/">> \o <<"i", "n">> \o <<"p", "u", "t">>,
      <<" ", "/", "/">> \o <<"o", "u", "t">> \o <<"p", "u", "t">>,
      <<" ", "/", "/">> \o <<"p", "a", "r">> \o <<"a", "m", "e", "t", "e", "r">> }

\* the trailing comments a #define line is given
DefineMarkers == { <<>>, <<" ", "/", "/", " ">> \o <<"p", "a", "r">> }

NL == <<"\n">>

\* int a;
DeclA(m) == <<"i", "n", "t">> \o <<" ", "a", ";">> \o m \o NL

\* float b = 1;
DeclB(m) == <<"f", "l", "o", "a", "t">> \o <<" ", "b", " ", "=", " ", "1", ";">> \o m \o NL

\* String c;
DeclC(m) == <<"S", "t", "r", "i", "n", "g">> \o <<" ", "c", ";">> \o m \o NL

\* #define X 1
DefineX(m) == <<"#", "d", "e", "f", "i", "n", "e">> \o <<" ", "X", " ", "1">> \o m \o NL

\* void setup(){} void loop(){}
EntryPoints ==
    <<"v", "o", "i", "d">> \o SP \o <<"s", "e", "t", "u", "p">> \o <<"(", ")", "{", "}", "\n">>
    \o <<"v", "o", "i", "d">> \o SP \o <<"l", "o", "o", "p">> \o <<"(", ")", "{", "}", "\n">>

\* the example sketch of the module docstring
DocstringSketch ==
    <<"i", "n", "t", " ", "s", "e", "n", "s", "o", "r", "V", "a",
      "l", "u", "e", " ", "=", " ", "0", ";", " ", "/", "/", " ",
      "i", "n", "\n", "i", "n", "t", " ", "o", "u", "t", "p", "u",
      "t", "V", "a", "l", "u", "e", " ", "=", " ", "0", ";", " ",
      "/", "/", " ", "o", "u", "t", "\n", "i", "n", "t", " ", "t",
      "h", "r", "e", "s", "h", "o", "l", "d", " ", "=", " ", "1",
      "0", "0", ";", " ", "/", "/", " ", "p", "a", "r", "\n", "v",
      "o", "i", "d", " ", "s", "e", "t", "u", "p", "(", ")", " ",
      "{", "\n", "}", "\n", "v", "o", "i", "d", " ", "l", "o", "o",
      "p", "(", ")", " ", "{", "\n", " ", " ", "o", "u", "t", "p",
      "u", "t", "V", "a", "l", "u", "e", " ", "=", " ", "s", "e",
      "n", "s", "o", "r", "V", "a", "l", "u", "e", " ", ">", " ",
      "t", "h", "r", "e", "s", "h", "o", "l", "d", ";", "\n", "}",
      "\n">>

ParseSketches ==
    {DeclA(m1) \o DeclB(m2) \o DeclC(m3) \o EntryPoints : m1 \in Markers, m2 \in Markers, m3 \in Markers}
    \cup {DeclA(m1) \o DefineX(k) \o DeclB(m2) \o EntryPoints : m1 \in Markers, k \in DefineMarkers, m2 \in Markers}
    \cup {DefineX(k) \o DeclA(m1) \o EntryPoints : k \in DefineMarkers, m1 \in Markers}
    \cup {DocstringSketch}

InitParse ==
    /\ code \in ParseSketches
    /\ phase = "text"
    /\ Blank

\* parse_arduino_code(code): the fact set replaces the fields of the caller
ParseArduinoCode ==
    /\ phase = "text"
    /\ \E result \in {parse_arduino_code(code)} :
           /\ leading_comment' = result.leading_comment
           /\ variables' = result.variables
           /\ functions' = result.functions
           /\ global_section_raw' = result.global_section_raw
           /\ global_includes' = result.global_includes
           /\ defines' = result.defines
           /\ extra_declarations' = result.extra_declarations
    /\ phase' = "parsed"
    /\ UNCHANGED <<application, code, block_name, block_description, setup_code, loop_code,
                   enable_input, xml, xml_prev, edits>>

NextParse == ParseArduinoCode

SpecParse == InitParse /\ [][NextParse]_vars

-----------------------------------------------------------------------------
(* Claims about roles                                                       *)

\* the line of s that holds the first whole-word occurrence of name: the
\* line that declares it
DeclarationLine(s, name) ==
    LET p == CHOOSE p \in 0..Len(s) :
                 /\ WordAt(s, name, p)
                 /\ \A q \in 0..(p - 1) : ~WordAt(s, name, q)
        a == IF \E q \in 0..(p - 1) : At(s, q) = "\n"
             THEN 1 + CHOOSE q \in 0..(p - 1) :
                         /\ At(s, q) = "\n"
                         /\ \A r \in (q + 1)..(p - 1) : At(s, r) # "\n"
             ELSE 0
        e == IF \E q \in p..(Len(s) - 1) : At(s, q) = "\n"
             THEN CHOOSE q \in p..(Len(s) - 1) :
                     /\ At(s, q) = "\n"
                     /\ \A r \in p..(q - 1) : At(s, r) # "\n"
             ELSE Len(s)
    IN  Slice(s, a, e)

\* the line ends with the comment //, optional blanks, word
EndsWithComment(line, word) ==
    \E p \in 0..Len(line) : \E q \in (p + 2)..Len(line) :
        /\ StartsWith(line, <<"/", "/">>, p)
        /\ \A k \in (p + 2)..(q - 1) : At(line, k) = " "
        /\ Slice(line, q, Len(line)) = word

\* the line carries no comment at all
NoComment(line) == \A p \in 0..Len(line) : ~StartsWith(line, <<"/", "/">>, p)

\* C1: the docstring sketch yields one input (sensorValue), one output
\* (outputValue) and one parameter (threshold, default 100)
C1_DocstringSketch ==
    (phase = "parsed" /\ code = DocstringSketch) =>
        /\ Len(WithRole(variables, "input")) = 1
        /\ WithRole(variables, "input")[1].name = <<"s", "e", "n", "s", "o", "r", "V", "a", "l", "u", "e">>
        /\ Len(WithRole(variables, "output")) = 1
        /\ WithRole(variables, "output")[1].name = <<"o", "u", "t", "p", "u", "t", "V", "a", "l", "u", "e">>
        /\ Len(WithRole(variables, "parameter")) = 1
        /\ WithRole(variables, "parameter")[1].name = <<"t", "h", "r", "e", "s", "h", "o", "l", "d">>
        /\ WithRole(variables, "parameter")[1].default = <<"1", "0", "0">>

\* C2: the role of a cataloged variable is the one that the marker of its
\* own declaration line names, and variable when that line has no comment,
\* whatever the other lines carry; the role of a #define is parameter
\* when its own line ends with // par and global when it has no comment
C2_RoleFromOwnLine ==
    phase = "parsed" =>
        /\ \A i \in 1..Len(variables) :
              LET line == DeclarationLine(code, variables[i].name)
              IN  /\ EndsWithComment(line, <<"i", "n">>) => variables[i].role = "input"
                  /\ EndsWithComment(line, <<"o", "u", "t">>) => variables[i].role = "output"
                  /\ EndsWithComment(line, <<"p", "a", "r">>) => variables[i].role = "parameter"
                  /\ NoComment(line) => variables[i].role = "variable"
        /\ \A i \in 1..Len(defines) :
              LET line == DeclarationLine(code, defines[i].name)
              IN  /\ EndsWithComment(line, <<"p", "a", "r">>) => defines[i].role = "parameter"
                  /\ NoComment(line) => defines[i].role = "global"

\* C3: a variable whose own declaration line ends with //input, //output
\* or //parameter has role input, output or parameter
C3_LongFormMarkers ==
    phase = "parsed" =>
        \A i \in 1..Len(variables) :
            LET line == DeclarationLine(code, variables[i].name)
            IN  /\ EndsWithComment(line, <<"i", "n">> \o <<"p", "u", "t">>)
                      => variables[i].role = "input"
                /\ EndsWithComment(line, <<"o", "u", "t">> \o <<"p", "u", "t">>)
                      => variables[i].role = "output"
                /\ EndsWithComment(line, <<"p", "a", "r">> \o <<"a", "m", "e", "t", "e", "r">>)
                      => variables[i].role = "parameter"

-----------------------------------------------------------------------------
(* A session of the caller: parse, edit, substitute, render                 *)

MaxEdits == 1

MaxSeed == 2

\* what the alias line edit of the dialog may hold when Save is pressed:
\* the alias it was opened with, a new alias between blanks, nothing, and
\* a text that is no identifier
AliasInputs(v) == {v.alias, <<" ", "a", "x", " ">>, <<>>, <<"1", "x">>}

\* what the default line edit may hold: the default it was opened with, or
\* a new one
DefaultInputs(v) == {v.default, <<" ", "5">>}

\* the Save button of the variable dialog (save_changes)
EditVariable ==
    /\ phase = "parsed"
    /\ edits < MaxEdits
    /\ \E i \in 1..Len(variables) : \E new_role \in Roles :
       \E alias_text \in AliasInputs(variables[i]) :
       \E default_text \in DefaultInputs(variables[i]) :
          variables' = save_changes(variables, i, new_role, alias_text, default_text)
    /\ edits' = edits + 1
    /\ UNCHANGED <<application, code, block_name, block_description, leading_comment,
                   setup_code, loop_code, global_section_raw, functions,
                   global_includes, defines, extra_declarations, enable_input,
                   xml, xml_prev, phase>>

\* the enable-gate checkbox is clicked
ToggleEnableInput ==
    /\ phase = "parsed"
    /\ enable_input' = ~enable_input
    /\ UNCHANGED <<application, code, block_name, block_description, leading_comment,
                   setup_code, loop_code, global_section_raw, functions,
                   variables, global_includes, defines, extra_declarations,
                   xml, xml_prev, edits, phase>>

\* the first steps of generate_block and generate_block_to_file: the two
\* bodies are extracted from the text and the aliases substituted
SubstituteAliases ==
    /\ phase = "parsed"
    /\ setup_code' = substitute_aliases(variables, extract_function_body(code, <<"s", "e", "t", "u", "p">>))
    /\ loop_code' = substitute_aliases(variables, extract_function_body(code, <<"l", "o", "o", "p">>))
    /\ phase' = "prepared"
    /\ UNCHANGED <<application, code, block_name, block_description, leading_comment,
                   global_section_raw, functions, variables, global_includes,
                   defines, extra_declarations, enable_input, xml, xml_prev,
                   edits>>

\* create_ubi_xml_sixx is called with the fact set and the prepared bodies;
\* the random source of the call is any seed
CreateUbiXmlSixx ==
    /\ phase \in {"prepared", "rendered"}
    /\ \E seed \in 1..MaxSeed :
          xml' = create_ubi_xml_sixx(block_name, block_description, variables,
                                     functions, global_includes, defines,
                                     extra_declarations, setup_code, loop_code,
                                     enable_input, seed)
    /\ xml_prev' = xml
    /\ phase' = "rendered"
    /\ UNCHANGED <<application, code, block_name, block_description, leading_comment,
                   setup_code, loop_code, global_section_raw, functions,
                   variables, global_includes, defines, extra_declarations,
                   enable_input, edits>>

-----------------------------------------------------------------------------
(* Alias substitution: the inputs                                           *)

MaxAliasBody == 4

\* int a, b; void setup(){a;} void loop(){ body }
AliasSketch(body) ==
    <<"i", "n", "t">> \o <<" ", "a", ",", " ", "b", ";", "\n">>
    \o <<"v", "o", "i", "d">> \o SP \o <<"s", "e", "t", "u", "p">> \o <<"(", ")", "{", "a", ";", "}", "\n">>
    \o <<"v", "o", "i", "d">> \o SP \o <<"l", "o", "o", "p">> \o <<"(", ")", "{">> \o body \o <<"}">>

AliasSketches ==
    {AliasSketch(body) : body \in StringsUpTo({"a", "b", "_", "+"}, MaxAliasBody)}

InitAlias ==
    /\ code \in AliasSketches
    /\ phase = "text"
    /\ Blank

NextAlias == ParseArduinoCode \/ EditVariable \/ SubstituteAliases

SpecAlias == InitAlias /\ [][NextAlias]_vars

RECURSIVE Tokens(_, _)
\* s from offset p on, cut into its words (the longest runs of letters,
\* digits and underscores) and its other characters, one by one
Tokens(s, p) ==
    IF p >= Len(s) THEN <<>>
    ELSE IF IsWord(At(s, p))
    THEN <<Slice(s, p, SkipWord(s, p))>> \o Tokens(s, SkipWord(s, p))
    ELSE <<<<At(s, p)>>>> \o Tokens(s, p + 1)

\* s with every word that is var_name replaced by alias
WholeWordReplace(s, var_name, alias) ==
    LET toks == Tokens(s, 0)
    IN  Flatten([i \in 1..Len(toks) |-> IF toks[i] = var_name THEN alias ELSE toks[i]])

\* the entries of the mapping whose alias differs from the name
Renamed(vs) == {i \in 1..Len(vs) : vs[i].alias # vs[i].name}

\* C6: when one variable has an alias of its own, each body handed to the
\* emitter is the extracted body with every word equal to the name
\* replaced by the alias and every other word kept; when no variable has,
\* the bodies are the extracted ones
C6_WholeWord ==
    phase = "prepared" =>
        /\ Renamed(variables) = {} =>
              /\ loop_code = extract_function_body(code, <<"l", "o", "o", "p">>)
              /\ setup_code = extract_function_body(code, <<"s", "e", "t", "u", "p">>)
        /\ \A i \in 1..Len(variables) :
              Renamed(variables) = {i} =>
                  /\ loop_code = WholeWordReplace(extract_function_body(code, <<"l", "o", "o", "p">>),
                                                   variables[i].name, variables[i].alias)
                  /\ setup_code = WholeWordReplace(extract_function_body(code, <<"s", "e", "t", "u", "p">>),
                                                    variables[i].name, variables[i].alias)

\* a was renamed to ax and the loop body a+ab became ax+ab
C6_Witness ==
    /\ phase = "prepared"
    /\ extract_function_body(code, <<"l", "o", "o", "p">>) = <<"a", "+", "a", "b">>
    /\ Renamed(variables) = {1}
    /\ variables[1].alias = <<"a", "x">>
    /\ loop_code = <<"a", "x", "+", "a", "b">>
    /\ setup_code = <<"a", "x", ";">>

-----------------------------------------------------------------------------
(* Rendering: the inputs                                                    *)

\* a #define and a variable, both parameters
SketchParamDefine ==
    <<"#", "d", "e", "f", "i", "n", "e", " ", "X", " ", "1", " ", "/",
      "/", " ", "p", "a", "r", "\n", "i", "n", "t", " ", "a", ";", " ",
      "/", "/", " ", "p", "a", "r", "\n", "v", "o", "i", "d", " ", "s",
      "e", "t", "u", "p", "(", ")", "{", "}", "\n", "v", "o", "i", "d",
      " ", "l", "o", "o", "p", "(", ")", "{", "a", "=", "X", ";", "}",
      "\n">>

\* an #include, a #define without a marker, an input
SketchInclude ==
    <<"#", "i", "n", "c", "l", "u", "d", "e", " ", "<", "W", ".", "h",
      ">", "\n", "#", "d", "e", "f", "i", "n", "e", " ", "L", "E", "D",
      " ", "1", "3", "\n", "i", "n", "t", " ", "a", ";", " ", "/", "/",
      " ", "i", "n", "\n", "i", "n", "t", " ", "b", ";", "\n", "v", "o",
      "i", "d", " ", "s", "e", "t", "u", "p", "(", ")", "{", "}", "\n",
      "v", "o", "i", "d", " ", "l", "o", "o", "p", "(", ")", "{", "b",
      "=", "a", ";", "}", "\n">>

\* an output, an opaque declaration, a user function, lines that end in
\* blanks and characters that markup escapes
SketchFunction ==
    <<"i", "n", "t", " ", "a", " ", "=", " ", "1", ";", " ", "/", "/",
      " ", "o", "u", "t", "\n", "S", "e", "r", "v", "o", " ", "s", ";",
      "\n", "i", "n", "t", " ", "f", "(", "i", "n", "t", " ", "x", ")",
      "{", "r", "e", "t", "u", "r", "n", " ", "x", ";", "}", "\n", "v",
      "o", "i", "d", " ", "s", "e", "t", "u", "p", "(", ")", "{", "a",
      "=", "0", ";", " ", "}", "\n", "v", "o", "i", "d", " ", "l", "o",
      "o", "p", "(", ")", "{", "\n", " ", "a", "=", "f", "(", "a", ")",
      ";", " ", " ", "\n", " ", "a", "b", "&", "&", "a", "<", "1", ";",
      "\n", "}", "\n">>

\* two #defines, one of each role, and a boolean parameter
SketchDefines ==
    <<"#", "d", "e", "f", "i", "n", "e", " ", "A", " ", "1", "\n", "#",
      "d", "e", "f", "i", "n", "e", " ", "B", " ", "2", " ", "/", "/",
      " ", "p", "a", "r", "\n", "b", "o", "o", "l", " ", "c", " ", "=",
      " ", "t", "r", "u", "e", ";", " ", "/", "/", " ", "p", "a", "r",
      "\n", "v", "o", "i", "d", " ", "l", "o", "o", "p", "(", ")", "{",
      "c", ";", "}", "\n">>

\* plain variables behind a leading comment
SketchPlain ==
    <<"/", "/", " ", "t", "w", "o", "\n", "i", "n", "t", " ", "a", ";",
      "\n", "S", "t", "r", "i", "n", "g", " ", "b", " ", "=", " ", "\"",
      "q", "\"", ";", "\n", "v", "o", "i", "d", " ", "s", "e", "t", "u",
      "p", "(", ")", "{", "}", "\n", "v", "o", "i", "d", " ", "l", "o",
      "o", "p", "(", ")", "{", "a", "<", "b", ";", "}", "\n">>

\* two inputs
SketchInputs ==
    <<"i", "n", "t", " ", "a", ";", " ", "/", "/", " ", "i", "n", "\n",
      "f", "l", "o", "a", "t", " ", "b", ";", " ", "/", "/", " ", "i",
      "n", "\n", "v", "o", "i", "d", " ", "l", "o", "o", "p", "(", ")",
      "{", "a", "+", "b", ";", "}", "\n">>

RenderSketches ==
    {SketchParamDefine, SketchInclude, SketchFunction, SketchDefines,
     SketchPlain, SketchInputs}

InitRender ==
    /\ code \in RenderSketches
    /\ phase = "text"
    /\ Blank

NextRender ==
    \/ ParseArduinoCode
    \/ EditVariable
    \/ ToggleEnableInput
    \/ SubstituteAliases
    \/ CreateUbiXmlSixx

SpecRender == InitRender /\ [][NextRender]_vars

-----------------------------------------------------------------------------
(* Claims about the rendered document                                       *)

\* the lines of doc between the node named section_name of the block and
\* the line that closes it
SectionLines(doc, section_name) ==
    LET a == CHOOSE k \in 1..Len(doc) :
                 doc[k].kind = "open" /\ doc[k].depth = 2 /\ doc[k].name = section_name
        e == CHOOSE k \in (a + 1)..Len(doc) :
                 /\ doc[k].kind = "close" /\ doc[k].depth = 2
                 /\ \A j \in (a + 1)..(k - 1) : ~(doc[j].kind = "close" /\ doc[j].depth = 2)
    IN  SubSeq(doc, a + 1, e - 1)

\* the texts of the lines of the section that carry the attribute name
\* leaf_name at the given depth, in document order
LeafTexts(doc, section_name, leaf_name, depth) ==
    LET picked == SelectSeq(SectionLines(doc, section_name),
                            LAMBDA l : l.kind = "leaf" /\ l.name = leaf_name /\ l.depth = depth)
    IN  [k \in 1..Len(picked) |-> picked[k].text]

InputNames(doc) == LeafTexts(doc, "inputs", "name", 5)

OutputNames(doc) == LeafTexts(doc, "outputs", "name", 5)

ParameterNames(doc) == LeafTexts(doc, "parametrs", "name", 6)

\* the names of the declare section: empty for a directive or an opaque
\* declaration
DeclaredNames(doc) ==
    SelectSeq(LeafTexts(doc, "declareCodePart", "name", 6), LAMBDA t : t # <<>>)

\* the offset at which name first stands as a word in the text s: where
\* it is declared
FirstDeclared(s, name) ==
    CHOOSE p \in 0..Len(s) :
        /\ WordAt(s, name, p)
        /\ \A q \in 0..(p - 1) : ~WordAt(s, name, q)

\* the names of the list follow one another as their declarations do in
\* the text s
InSourceOrder(s, names) ==
    \A i \in 1..Len(names) : \A j \in (i + 1)..Len(names) :
        FirstDeclared(s, names[i]) < FirstDeclared(s, names[j])

\* C7: in a document rendered from a fact set in which every variable
\* goes by its own name, the inputs, the outputs, the parameters and the
\* plain variables each appear in the order of their declarations
C7_SourceOrder ==
    (phase = "rendered" /\ Renamed(variables) = {}) =>
        /\ InSourceOrder(code, IF enable_input THEN Tail(InputNames(xml))
                                ELSE InputNames(xml))
        /\ InSourceOrder(code, OutputNames(xml))
        /\ InSourceOrder(code, ParameterNames(xml))
        /\ InSourceOrder(code, DeclaredNames(xml))

\* the document with the text of every unique-identifier field blanked
MaskUuid(doc) ==
    [k \in 1..Len(doc) |->
        IF doc[k].kind = "leaf" /\ doc[k].name = "id" /\ doc[k].type = "String"
        THEN [doc[k] EXCEPT !.text = <<>>]
        ELSE doc[k]]

\* C8: a render that follows a render of the same fact set, edits, block
\* name, description and option gives the same document, line for line
\* and id for id, except for the unique-identifier fields
C8_RenderTwice ==
    [][(phase = "rendered" /\ phase' = "rendered") => MaskUuid(xml') = MaskUuid(xml)]_vars

\* a fact set with a pin was rendered twice, with different identifiers
C8_Witness ==
    /\ phase = "rendered"
    /\ xml_prev # <<>>
    /\ xml # xml_prev
    /\ MaskUuid(xml) = MaskUuid(xml_prev)
    /\ InputNames(xml) # <<>>
    /\ ParameterNames(xml) # <<>>

\* the entries of the declare section that spell a #define of name
DeclaredDefines(doc, name) ==
    LET firsts == LeafTexts(doc, "declareCodePart", "firstPart", 6)
        directive == <<"#", "d", "e", "f", "i", "n", "e">> \o <<" ">> \o name
    IN  {k \in 1..Len(firsts) :
            /\ StartsWith(firsts[k], directive, 0)
            /\ Len(firsts[k]) = Len(directive) \/ At(firsts[k], Len(directive)) = " "}

\* the entries of the parameter section that go by name
ParameterEntries(doc, name) ==
    {k \in 1..Len(ParameterNames(doc)) : ParameterNames(doc)[k] = name}

\* the lines of the text s that are #define directives
DefineDirectives(s) ==
    LET lines == SplitChar(s, "\n", 0)
    IN  {k \in 1..Len(lines) : StartsWith(Strip(lines[k]), <<"#", "d", "e", "f", "i", "n", "e">> \o <<" ">>, 0)}

\* C9: every #define line of the sketch is a record of the fact set; one
\* whose line has no // par comment has role global and is rendered once
\* in the declare section and not among the parameters; one whose line has
\* the comment has role parameter and is rendered once among the
\* parameters and not in the declare section (for a name that one
\* directive defines and no variable goes by)
C9_DefineRendering ==
    phase = "rendered" =>
        /\ Len(defines) = Cardinality(DefineDirectives(code))
        /\ \A i \in 1..Len(defines) :
              LET d == defines[i]
                  line == DeclarationLine(code, d.name)
              IN  (/\ \A j \in 1..Len(defines) : defines[j].name = d.name => j = i
                   /\ \A j \in 1..Len(variables) : variables[j].alias # d.name)
                  => IF HasMarker(line, <<"p", "a", "r">>)
                     THEN /\ d.role = "parameter"
                          /\ Cardinality(ParameterEntries(xml, d.name)) = 1
                          /\ DeclaredDefines(xml, d.name) = {}
                     ELSE /\ d.role = "global"
                          /\ Cardinality(DeclaredDefines(xml, d.name)) = 1
                          /\ ParameterEntries(xml, d.name) = {}

\* a sketch with a #define of each kind was rendered
C9_Witness ==
    /\ phase = "rendered"
    /\ code = SketchDefines
    /\ Len(defines) = 2
    /\ defines[1].role = "global"
    /\ defines[2].role = "parameter"
    /\ DeclaredDefines(xml, <<"A">>) = {1}
    /\ ParameterEntries(xml, <<"B">>) # {}

\* the text of the loop body in the document
LoopText(doc) == LeafTexts(doc, "loopCodePart", "code", 3)[1]

\* the data types of the pins of the section, in document order
PinTypes(doc, section_name) ==
    LET picked == SelectSeq(SectionLines(doc, section_name),
                            LAMBDA l : l.kind = "open" /\ l.name = "type")
    IN  [k \in 1..Len(picked) |-> picked[k].type]

\* the aliases of the variables of role input
InputAliases(vs) == {vs[i].alias : i \in {j \in 1..Len(vs) : vs[j].role = "input"}}

\* C10: with the option set the loop body of the document is if(En),
\* newline, {, newline, the body, newline, } and the inputs are one
\* boolean entry En followed by the user inputs; with the option unset the
\* loop body is the body and the inputs are the user inputs
C10_EnableGate ==
    phase = "rendered" =>
        LET body == html_escape(rstrip_lines(loop_code))
            users == Len(WithRole(variables, "input"))
            names == InputNames(xml)
        IN  IF enable_input
            THEN /\ LoopText(xml) = <<"i", "f", "(", "E", "n", ")", "\n", "{", "\n">>
                                     \o body \o <<"\n", "}">>
                 /\ Len(names) = users + 1
                 /\ names[1] = <<"E", "n">>
                 /\ PinTypes(xml, "inputs")[1] = "BooleanDataType class"
                 /\ \A k \in 2..Len(names) : names[k] \in InputAliases(variables)
            ELSE /\ LoopText(xml) = body
                 /\ Len(names) = users
                 /\ \A k \in 1..Len(names) : names[k] \in InputAliases(variables)

\* a sketch with two inputs and a loop body was rendered with the option
\* set
C10_Witness ==
    /\ phase = "rendered"
    /\ enable_input
    /\ code = SketchInputs
    /\ loop_code # <<>>
    /\ Len(InputNames(xml)) = 3


-----------------------------------------------------------------------------
(* Extraction of malformed texts: the inputs                                *)

MaxFragments == 3

\* pieces of sketches: put together in any order they give declarations
\* without a name, a value or an end, directives without a name or with a
\* value that is no number, comments and literals that never close, and
\* functions without a body or a closing brace
Fragments ==
    { <<"i", "n", "t", " ">>,
      <<"a">>,
      <<";">>,
      <<"=">>,
      <<",">>,
      <<"#", "d", "e", "f", "i", "n", "e", " ", "X", " ">>,
      <<"1", ".">>,
      <<"/", "*">>,
      <<"\"">>,
      <<"v", "o", "i", "d", " ", "l", "o", "o", "p", "(", ")">>,
      <<"i", "n", "t", " ", "f", "(", "a">>,
      <<")", "{">>,
      <<"\n">> }

RECURSIVE FragmentTexts(_)
\* the texts of at most n fragments
FragmentTexts(n) ==
    IF n = 0 THEN {<<>>}
    ELSE LET S == FragmentTexts(n - 1)
         IN  S \cup {t \o f : t \in S, f \in Fragments}

InitTotal ==
    /\ code \in FragmentTexts(MaxFragments)
    /\ phase = "text"
    /\ Blank

NextTotal == ParseArduinoCode

SpecTotal == InitTotal /\ [][NextTotal]_vars

-----------------------------------------------------------------------------
(* Claims about malformed texts                                             *)

\* the text s holds the text w somewhere
Holds(s, w) == \E p \in 0..Len(s) : StartsWith(s, w, p)

\* the types infer_define_type names
DefineTypes ==
    { <<"S", "t", "r", "i", "n", "g">>, <<"b", "o", "o", "l", "e", "a", "n">>,
      <<"f", "l", "o", "a", "t">>, <<"l", "o", "n", "g">> }

\* C11: parse_arduino_code returns a fact set for every text, and no
\* exception leaves it: the seven fields are there, every cataloged variable,
\* #define and function has a name and the type, role and position of its
\* kind, and a step that finds nothing gives an empty result (no comment
\* opener: no leading comment; no semicolon: no variable and no opaque
\* declaration; no directive: no #define and no #include; no opening
\* brace: no function)
C11_NeverRaises ==
    phase = "parsed" =>
        /\ \A i \in 1..Len(variables) :
              /\ DOMAIN variables[i] = {"name", "type", "default", "role", "alias", "position"}
              /\ IsIdentifier(variables[i].name)
              /\ variables[i].type \in PrimitiveTypes
              /\ variables[i].role \in Roles
              /\ variables[i].position \in 0..Len(code)
        /\ \A i \in 1..Len(defines) :
              /\ DOMAIN defines[i] = {"name", "value", "role", "type", "position"}
              /\ IsIdentifier(defines[i].name)
              /\ defines[i].type \in DefineTypes
              /\ defines[i].role \in {"global", "parameter"}
              /\ defines[i].position \in 0..Len(code)
        /\ \A i \in 1..Len(functions) :
              /\ IsIdentifier(functions[i].name)
              /\ functions[i].before \in BOOLEAN
        /\ ~Holds(code, <<"/">>) => leading_comment = <<>>
        /\ ~Holds(code, <<";">>) => variables = <<>> /\ extra_declarations = <<>>
        /\ ~Holds(code, <<"#">>) => defines = <<>> /\ global_includes = <<>>
        /\ ~Holds(code, <<"{">>) => functions = <<>>
        /\ Len(global_section_raw) <= Len(code)

\* a directive whose value is no number, a declarator without a name and a
\* function without an end have been through the extraction
C11_Witness ==
    /\ phase = "parsed"
    /\ \/ /\ code = <<"#", "d", "e", "f", "i", "n", "e", " ", "X", " ", "1", ".", ",">>
          /\ Len(defines) = 1
          /\ defines[1].type = <<"S", "t", "r", "i", "n", "g">>
       \/ /\ code = <<"i", "n", "t", " ", "=", ";">>
          /\ variables = <<>>
       \/ /\ code = <<"i", "n", "t", " ", "f", "(", "a", ")", "{">>
          /\ Len(functions) = 1
          /\ functions[1].body = <<>>


-----------------------------------------------------------------------------
(* Rendering of one parameter and one function: the inputs                  *)

\* the types the parameter of the sketch is declared with
EmitTypes ==
    { <<"i", "n", "t">>, <<"l", "o", "n", "g">>, <<"f", "l", "o", "a", "t">>, <<"d", "o", "u", "b", "l", "e">>, <<"S", "t", "r", "i", "n", "g">>, <<"b", "o", "o", "l">> }

\* the initializers it is given: a decimal, a pin name, an integer, a
\* string literal and a boolean
EmitDefaults ==
    { <<"1", ".", "5">>, <<"A", "0">>, <<"7">>, <<"\"", "q", "\"">>, <<"t", "r", "u", "e">> }

\* T k = D; // par
\* void f(int &x){x%2;}
\* void setup(){k=1,2;}
\* void loop(){f(k);}
EmitSketch(type, default) ==
    type \o <<" ", "k", " ", "=", " ">> \o default \o <<";", " ", "/", "/", " ", "p", "a", "r", "\n">>
    \o <<"v", "o", "i", "d", " ", "f", "(", "i", "n", "t", " ", "&", "x", ")", "{", "x", "%", "2", ";", "}", "\n">>
    \o <<"v", "o", "i", "d", " ", "s", "e", "t", "u", "p", "(", ")", "{", "k", "=", "1", ",", "2", ";", "}", "\n">>
    \o <<"v", "o", "i", "d", " ", "l", "o", "o", "p", "(", ")", "{", "f", "(", "k", ")", ";", "}", "\n">>

EmitSketches == {EmitSketch(type, default) : type \in EmitTypes, default \in EmitDefaults}

InitEmit ==
    /\ code \in EmitSketches
    /\ phase = "text"
    /\ Blank

NextEmit ==
    \/ ParseArduinoCode
    \/ ToggleEnableInput
    \/ SubstituteAliases
    \/ CreateUbiXmlSixx

SpecEmit == InitEmit /\ [][NextEmit]_vars

-----------------------------------------------------------------------------
(* Claims about identifiers and escaping                                    *)

\* C12: no two nodes of a rendered document carry the same sixx.id
C12_UniqueIds ==
    phase = "rendered" =>
        \A i \in 1..Len(xml) : \A j \in 1..Len(xml) :
            (i # j /\ xml[i].id # 0 /\ xml[j].id # 0) => xml[i].id # xml[j].id

\* the character references html.escape writes
Entities ==
    { <<"&", "a", "m", "p", ";">>, <<"&", "l", "t", ";">>, <<"&", "g", "t", ";">>, <<"&", "q", "u", "o", "t", ";">>, <<"&", "#", "x", "2", "7", ";">> }

\* the text holds no raw <, > or &: every & opens a character reference
NoRawMarkup(text) ==
    \A p \in 0..(Len(text) - 1) :
        /\ At(text, p) \notin {"<", ">"}
        /\ At(text, p) = "&" => \E e \in Entities : StartsWith(text, e, p)

\* C13: no text value of a rendered document holds a raw <, > or &: the
\* block name, the description, the aliases, the names and types of the
\* functions and of their parameters, the declarations and the defaults
\* are all escaped
C13_FreeTextEscaped ==
    phase = "rendered" =>
        \A i \in 1..Len(xml) : xml[i].kind = "leaf" => NoRawMarkup(xml[i].text)

\* the lines of the document that hold a code body: the loop body, the
\* setup body and the body of every user function
IsBodyLine(l) ==
    /\ l.kind = "leaf"
    /\ \/ l.name = "code" /\ l.depth = 3
       \/ l.name = "functionBody"

\* C14: the code bodies of a rendered document hold no raw ( ) , or %
C14_BodyCharactersEscaped ==
    phase = "rendered" =>
        \A i \in 1..Len(xml) :
            IsBodyLine(xml[i]) =>
                \A p \in 1..Len(xml[i].text) : xml[i].text[p] \notin {"(", ")", ",", "%"}

-----------------------------------------------------------------------------
(* Claims about the variable dialog                                         *)

\* the text is a word of the grammar [A-Za-z_][A-Za-z0-9_]*
InIdentifierGrammar(s) ==
    /\ Len(s) >= 1
    /\ s[1] \in Letters \cup {"_"}
    /\ \A k \in 2..Len(s) : s[k] \in Letters \cup Digits \cup {"_"}

\* C15: after an extraction and any sequence of variable edits, accepted
\* or rejected, the alias of every variable is a non-empty identifier
C15_AliasIsIdentifier ==
    phase \in {"parsed", "prepared", "rendered"} =>
        \A i \in 1..Len(variables) : InIdentifierGrammar(variables[i].alias)

\* an edit has been accepted: a variable carries the alias typed in the
\* dialog, without the blanks around it
C15_Witness ==
    /\ phase = "parsed"
    /\ edits = 1
    /\ \E i \in 1..Len(variables) :
          /\ variables[i].alias = <<"a", "x">>
          /\ variables[i].name # <<"a", "x">>

-----------------------------------------------------------------------------
(* Claims about the function catalog                                        *)

\* the end of the longest run of characters of S that begins at offset a
RunEnd(s, a, S) ==
    IF a >= Len(s) THEN a
    ELSE CHOOSE q \in a..Len(s) :
            /\ q = Len(s) \/ s[q + 1] \notin S
            /\ \A r \in a..(q - 1) : s[r + 1] \in S

\* the offset of the first ch at or after offset a, Len(s) when there is none
NextOf(s, a, ch) ==
    IF a >= Len(s) THEN a
    ELSE CHOOSE q \in a..Len(s) :
            /\ q = Len(s) \/ s[q + 1] = ch
            /\ \A r \in a..(q - 1) : s[r + 1] # ch

\* the definition header that begins at offset p with return type T:
\* T, blanks, an identifier, optional blanks, a parameter list without a
\* closing parenthesis in it, optional blanks and an opening brace
HeaderOf(s, p, T) ==
    LET a == p + Len(T)
        b == RunEnd(s, a, Whitespace)
        c == RunEnd(s, b, Letters \cup Digits \cup {"_"})
        d == RunEnd(s, c, Whitespace)
        e == NextOf(s, d + 1, ")")
        f == RunEnd(s, e + 1, Whitespace)
    IN  [ok |-> /\ a <= Len(s) /\ SubSeq(s, p + 1, a) = T
                /\ b > a /\ c > b /\ s[b + 1] \notin Digits
                /\ d < Len(s) /\ s[d + 1] = "("
                /\ e < Len(s) /\ s[e + 1] = ")"
                /\ f < Len(s) /\ s[f + 1] = "{",
         name |-> SubSeq(s, b + 1, c),
         end |-> f + 1]

\* offset p lies inside a header that begins before it
InsideEarlier(s, p) ==
    \E q \in 0..(p - 1) : \E j \in 1..Len(FuncReturnTypes) :
        /\ HeaderOf(s, q, FuncReturnTypes[j]).ok
        /\ HeaderOf(s, q, FuncReturnTypes[j]).end > p

EntryNames == {<<"s", "e", "t", "u", "p">>, <<"l", "o", "o", "p">>}

\* C18: the catalog parse_functions returns never has setup or loop as a
\* key, and every other definition header with a return type of the fixed
\* set and an opening brace behind it is a key of the catalog
C18_CatalogKeys ==
    phase \in {"functions", "bodies"} =>
        /\ \A k \in 1..Len(functions) : functions[k].name \notin EntryNames
        /\ \A p \in 0..(Len(code) - 1) : \A i \in 1..Len(FuncReturnTypes) :
              (/\ HeaderOf(code, p, FuncReturnTypes[i]).ok
               /\ HeaderOf(code, p, FuncReturnTypes[i]).name \notin EntryNames
               /\ ~InsideEarlier(code, p))
              => \E k \in 1..Len(functions) :
                    functions[k].name = HeaderOf(code, p, FuncReturnTypes[i]).name

\* the text defines g and then loop, both with an opening brace: the
\* catalog holds g alone
C18_Witness ==
    /\ phase = "functions"
    /\ \E p \in 0..(Len(code) - 1) :
          /\ HeaderOf(code, p, <<"v", "o", "i", "d">>).ok
          /\ HeaderOf(code, p, <<"v", "o", "i", "d">>).name = <<"l", "o", "o", "p">>
    /\ Len(functions) = 1
    /\ functions[1].name = <<"g">>

-----------------------------------------------------------------------------
(* Claims about the default of a parameter                                  *)

\* the lines of the parameter section that hold a default, in document order
DefaultLeaves(doc) ==
    SelectSeq(SectionLines(doc, "parametrs"),
              LAMBDA l : l.kind = "leaf" /\ l.depth = 6
                         /\ l.name \in {"stringDefaultValue", "numberDefaultValue"})

\* the declared variables the k-th parameter entry of the document can
\* stand for: those of role parameter with the alias the entry shows
SourcesOf(doc, k) ==
    {i \in 1..Len(variables) :
        /\ variables[i].role = "parameter"
        /\ variables[i].alias = ParameterNames(doc)[k]}

HasPoint(text) == \E i \in 1..Len(text) : text[i] = "."

\* C19: the default of a parameter is a String value when the type is
\* String, else a Float value when the type is float or double or the
\* default holds a decimal point, else a SmallInteger value
C19_DefaultKind ==
    phase = "rendered" =>
        /\ Len(DefaultLeaves(xml)) = Len(ParameterNames(xml))
        /\ \A k \in 1..Len(DefaultLeaves(xml)) : \A i \in SourcesOf(xml, k) :
              IF variables[i].type = <<"S", "t", "r", "i", "n", "g">>
              THEN /\ DefaultLeaves(xml)[k].name = "stringDefaultValue"
                   /\ DefaultLeaves(xml)[k].type = "String"
              ELSE IF \/ variables[i].type \in {<<"f", "l", "o", "a", "t">>, <<"d", "o", "u", "b", "l", "e">>}
                      \/ HasPoint(variables[i].default)
              THEN /\ DefaultLeaves(xml)[k].name = "numberDefaultValue"
                   /\ DefaultLeaves(xml)[k].type = "Float"
              ELSE /\ DefaultLeaves(xml)[k].name = "numberDefaultValue"
                   /\ DefaultLeaves(xml)[k].type = "SmallInteger"

\* C20: a parameter of a numeric type whose stored default is no number
\* shows the default 0 (bool and boolean have their own mapping to 1 and 0
\* and are left out)
C20_UnparsedDefaultIsZero ==
    phase = "rendered" =>
        \A k \in 1..Len(DefaultLeaves(xml)) : \A i \in SourcesOf(xml, k) :
            (/\ variables[i].type \notin {<<"S", "t", "r", "i", "n", "g">>, <<"b", "o", "o", "l">>, <<"b", "o", "o", "l", "e", "a", "n">>}
             /\ variables[i].default # <<>>
             /\ ~IsIntText(variables[i].default)
             /\ ~IsFloatText(variables[i].default))
            => /\ DefaultLeaves(xml)[k].name = "numberDefaultValue"
               /\ DefaultLeaves(xml)[k].text = <<"0">>

-----------------------------------------------------------------------------
(* The application: the handlers of the window and of the command line      *)

\* the text the description field is created with and the text the generate
\* handlers put in place of a blank field (a sentence in Russian in the
\* source, written here in Latin letters)
DefaultDescription == <<"a", "u", "t", "o">>

\* the keys of the mapping parse_arduino_code returns
ResultKeys ==
    {"leading_comment", "variables", "functions", "global_section_raw", "global_includes", "defines", "extra_declarations"}

\* the keys parse_code reads from that mapping, in the order of the reads
ReadKeys ==
    <<"leading_comment", "variables", "functions", "global_section_raw", "global_includes", "global_defines", "extra_declarations">>

\* the read number k of parse_code is done: no read up to it raised KeyError
ReadReached(k) == \A j \in 1..k : ReadKeys[j] \in ResultKeys

\* parse_code: the fields are reset, the description field takes the leading
\* comment when there is one, and each field is assigned from the result
\* as far as the reads go; the tree views and the message box that follow
\* change no field
parse_code(result, description) ==
    [block_description |-> IF ReadReached(1) /\ result.leading_comment # <<>>
                           THEN result.leading_comment ELSE description,
     variables |-> IF ReadReached(2) THEN result.variables ELSE <<>>,
     functions |-> IF ReadReached(3) THEN result.functions ELSE <<>>,
     global_section_raw |-> IF ReadReached(4) THEN result.global_section_raw ELSE <<>>,
     global_includes |-> IF ReadReached(5) THEN result.global_includes ELSE <<>>,
     global_defines |-> IF ReadReached(6) THEN result.defines ELSE <<>>,
     extra_declarations |-> IF ReadReached(7) THEN result.extra_declarations ELSE <<>>,
     raised |-> IF ReadReached(Len(ReadKeys)) THEN "" ELSE "KeyError"]

\* the keyword arguments of the call of create_ubi_xml_sixx in both
\* generate handlers
CallKeywords ==
    {"block_name", "block_description", "variables", "functions", "global_includes", "global_defines", "extra_declarations", "setup_code", "loop_code", "enable_input"}

\* the parameters of create_ubi_xml_sixx, and those with a default
Parameters ==
    {"block_name", "block_description", "variables", "functions", "global_includes", "defines", "extra_declarations", "setup_code", "loop_code", "enable_input"}

DefaultedParameters == {"enable_input"}

\* the call binds: every keyword names a parameter and every parameter
\* without a default is given (TypeError otherwise)
CallBinds ==
    /\ CallKeywords \subseteq Parameters
    /\ (Parameters \ DefaultedParameters) \subseteq CallKeywords

\* block_description_entry.toPlainText().strip() or the default text
DescriptionOf(entry) == IF Strip(entry) = <<>> THEN DefaultDescription ELSE Strip(entry)

\* open(filename, 'w') followed by f.write(xml_content)
Written(document) == [exists |-> TRUE, content |-> document]

\* generate_block_to_file with the file taken first: the file is opened for
\* writing, and so emptied or created, before the document is made
generate_block_to_file_open_first(file, binds, document) ==
    IF ~binds
    THEN [file |-> Written(<<>>),
          outcome |-> [handler |-> "generate_block_to_file", raised |-> "TypeError",
                       ok |-> FALSE, info |-> "TypeError"]]
    ELSE [file |-> Written(document),
          outcome |-> [handler |-> "generate_block_to_file", raised |-> "",
                       ok |-> TRUE, info |-> "filename"]]

\* generate_block_to_file: the try block makes the document and then writes
\* the file; the except branch returns False and the text of the exception
generate_block_to_file(file, binds, document) ==
    IF ~binds
    THEN [file |-> file,
          outcome |-> [handler |-> "generate_block_to_file", raised |-> "TypeError",
                       ok |-> FALSE, info |-> "TypeError"]]
    ELSE [file |-> Written(document),
          outcome |-> [handler |-> "generate_block_to_file", raised |-> "",
                       ok |-> TRUE, info |-> "filename"]]

\* generate_block: the same try block with a file dialog between the
\* document and the write; chosen is FALSE when the dialog is cancelled.
\* The except branch shows the text of the exception in a dialog
generate_block(file, binds, document, chosen) ==
    IF ~binds
    THEN [file |-> file,
          outcome |-> [handler |-> "generate_block", raised |-> "TypeError",
                       ok |-> FALSE, info |-> "TypeError"]]
    ELSE IF ~chosen
    THEN [file |-> file,
          outcome |-> [handler |-> "generate_block", raised |-> "",
                       ok |-> FALSE, info |-> ""]]
    ELSE [file |-> Written(document),
          outcome |-> [handler |-> "generate_block", raised |-> "",
                       ok |-> TRUE, info |-> "filename"]]

\* the document both handlers make inside the try block from the fields of
\* the window
DocumentOf(seed) ==
    create_ubi_xml_sixx(block_name, DescriptionOf(block_description), variables,
        functions, global_includes, defines, extra_declarations,
        substitute_aliases(variables, extract_function_body(code, <<"s", "e", "t", "u", "p">>)),
        substitute_aliases(variables, extract_function_body(code, <<"l", "o", "o", "p">>)),
        enable_input, seed)

-----------------------------------------------------------------------------
(* The application: the inputs                                              *)

\* the values of --description: not given, a word, blanks
CliDescriptions == {<<>>, <<"d">>, <<" ">>}

\* the values of --name: not given, a word
CliNames == {<<>>, <<"N">>}

\* the name of the input file without its extension
BaseName == <<"s">>

\* a file a run before this one left at the destination
PriorFile == Written(<<Leaf(0, 1, "", "String", "Core", <<"o", "l", "d">>)>>)

AppSketches ==
    RenderSketches
    \cup {<<"/", "*", " ", "c", " ", "*", "/", "\n">> \o SketchInputs,
          <<"/", "/", " ", "c", "\n">> \o SketchDefines}

\* the process starts with or without --input: "cli" before main_cli fills
\* the fields, "text" for the window with a sketch in its editor
InitApp ==
    /\ code \in AppSketches
    /\ phase \in {"text", "cli"}
    /\ BlankFields
    /\ dest_file \in {NoFile, PriorFile}
    /\ block_name = <<"B">>
    /\ block_description = DefaultDescription

\* main_cli fills the name and the description fields from the arguments
MainCliFields ==
    /\ phase = "cli"
    /\ \E d \in CliDescriptions : \E n \in CliNames :
          /\ cli_description' = d
          /\ block_name' = IF n # <<>> THEN n ELSE BaseName
          /\ block_description' = IF d # <<>> THEN d ELSE block_description
    /\ phase' = "fields"
    /\ UNCHANGED <<code, leading_comment, setup_code, loop_code, global_section_raw,
                   functions, variables, global_includes, defines, extra_declarations,
                   enable_input, xml, xml_prev, edits, dest_file, outcome>>

\* parse_code, from the Parse button or from main_cli. main_cli does not
\* catch an exception of parse_code: the process ends there
ParseCode ==
    /\ phase \in {"text", "parsed", "fields"}
    /\ \E result \in {parse_arduino_code(code)} :
       \E fields \in {parse_code(result, block_description)} :
          /\ block_description' = fields.block_description
          /\ variables' = fields.variables
          /\ functions' = fields.functions
          /\ global_section_raw' = fields.global_section_raw
          /\ global_includes' = fields.global_includes
          /\ defines' = fields.global_defines
          /\ extra_declarations' = fields.extra_declarations
          /\ outcome' = [handler |-> "parse_code", raised |-> fields.raised,
                         ok |-> fields.raised = "", info |-> fields.raised]
          /\ phase' = IF phase # "fields" THEN "parsed"
                      ELSE IF fields.raised = "" THEN "cli_parsed" ELSE "ended"
    /\ UNCHANGED <<code, block_name, leading_comment, setup_code, loop_code,
                   enable_input, xml, xml_prev, edits, cli_description, dest_file>>

\* the Generate button of the window
GenerateBlock ==
    /\ phase \in {"text", "parsed"}
    /\ \E seed \in 1..MaxSeed : \E chosen \in BOOLEAN :
       \E r \in {generate_block(dest_file, CallBinds, DocumentOf(seed), chosen)} :
          /\ dest_file' = r.file
          /\ outcome' = r.outcome
    /\ UNCHANGED <<code, block_name, block_description, leading_comment, setup_code,
                   loop_code, global_section_raw, functions, variables,
                   global_includes, defines, extra_declarations, enable_input, xml,
                   xml_prev, edits, cli_description, phase>>

\* generate_block_to_file is a method of the window: main_cli calls it
\* after parse_code has returned, and the model lets it be called in every
\* state the window can be in
GenerateBlockToFile ==
    /\ phase \in {"text", "parsed", "cli_parsed"}
    /\ \E seed \in 1..MaxSeed :
       \E r \in {generate_block_to_file(dest_file, CallBinds, DocumentOf(seed))} :
          /\ dest_file' = r.file
          /\ outcome' = r.outcome
    /\ phase' = IF phase = "cli_parsed" THEN "ended" ELSE phase
    /\ UNCHANGED <<code, block_name, block_description, leading_comment, setup_code,
                   loop_code, global_section_raw, functions, variables,
                   global_includes, defines, extra_declarations, enable_input, xml,
                   xml_prev, edits, cli_description>>

NextApp ==
    \/ MainCliFields
    \/ ParseCode
    \/ EditVariable
    \/ ToggleEnableInput
    \/ GenerateBlock
    \/ GenerateBlockToFile

SpecApp == InitApp /\ [][NextApp]_vars

-----------------------------------------------------------------------------
(* Claims about the application                                             *)

GenerateHandlers == {"generate_block", "generate_block_to_file"}

\* C16: a generate handler in which the making of the document raised
\* leaves the destination file as it was and ends with a failure result
\* that carries the diagnostic; the file changes only in a handler that
\* made the whole document
C16_FileAfterDocument ==
    [][/\ (outcome'.handler \in GenerateHandlers /\ outcome'.raised # "")
            => /\ dest_file' = dest_file
               /\ ~outcome'.ok
               /\ outcome'.info = outcome'.raised
       /\ dest_file' # dest_file
            => /\ outcome'.handler \in GenerateHandlers
               /\ outcome'.raised = ""
               /\ outcome'.ok]_vars

\* generate_block_to_file has failed while a file of an earlier run was at
\* the destination: the file is still that file
C16_Witness ==
    /\ outcome.handler = "generate_block_to_file"
    /\ outcome.raised = "TypeError"
    /\ ~outcome.ok
    /\ dest_file = PriorFile
    /\ variables # <<>>

\* C17: after main_cli has filled the fields and parsed the sketch, the
\* description the block is rendered with is the text of --description when
\* it was given, and the leading comment of the sketch only when it was not
C17_DescriptionArgumentWins ==
    (phase \in {"cli_parsed", "ended"} /\ outcome.handler = "parse_code") =>
        /\ cli_description # <<>> => DescriptionOf(block_description) = DescriptionOf(cli_description)
        /\ (cli_description = <<>> /\ extract_leading_comment(code) # <<>>)
              => block_description = extract_leading_comment(code)

-----------------------------------------------------------------------------
(* Functions before the entry points: the inputs                            *)

MaxLocal == 2

\* the statements a function body is made of
LocalStatements ==
    { <<"i", "n", "t", " ", "y", ";">>, <<"{", "i", "n", "t", " ", "z", ";", "}">>, <<"S", "e", "r", "v", "o", " ", "q", ";">>, <<"x", "=", "1", ";">> }

\* the bodies of at most n statements
RECURSIVE LocalBodies(_)
LocalBodies(n) ==
    IF n = 0 THEN {<<>>}
    ELSE LocalBodies(n - 1) \cup {b \o st : b \in LocalBodies(n - 1), st \in LocalStatements}

LocalReturnTypes == { <<"i", "n", "t">>, <<"v", "o", "i", "d">>, <<"u", "i", "n", "t", "8", "_", "t">>, <<"S", "t", "r", "i", "n", "g">>, <<"b", "y", "t", "e">> }

\* int g; T f(){ body } void setup(){} void loop(){}
LocalSketch(type, body) ==
    <<"i", "n", "t", " ", "g", ";", "\n">> \o type \o <<" ", "f", "(", ")", "{">> \o body \o <<"}", "\n", "v", "o", "i", "d", " ", "s", "e", "t", "u", "p", "(", ")", "{", "}", "\n", "v", "o", "i", "d", " ", "l", "o", "o", "p", "(", ")", "{", "}", "\n">>

InitLocal ==
    /\ code \in {LocalSketch(type, body) : type \in LocalReturnTypes, body \in LocalBodies(MaxLocal)}
    /\ phase = "text"
    /\ Blank

NextLocal == ParseArduinoCode

SpecLocal == InitLocal /\ [][NextLocal]_vars

-----------------------------------------------------------------------------
(* Claims about the global declarations                                     *)

\* C21: nothing declared inside the body of a function defined before the
\* entry points is cataloged: of a sketch whose only global statement is
\* int g; the variables are g alone and there is no opaque declaration
C21_LocalsNotCataloged ==
    phase = "parsed" =>
        /\ \A i \in 1..Len(variables) : variables[i].name = <<"g">>
        /\ extra_declarations = <<>>

-----------------------------------------------------------------------------
(* Global statements of other types: the inputs                             *)

MaxStatements == 3

\* global statements whose type is not a primitive type
OpaqueStatements ==
    { <<"S", "e", "r", "v", "o", " ", "m", ";">>, <<"S", "o", "f", "t", "w", "a", "r", "e", "S", "e", "r", "i", "a", "l", " ", "s", "(", "7", ",", " ", "8", ")", ";">>, <<"A", ":", ":", "B", " ", "c", ";">>, <<"S", "e", "r", "v", "o", " ", "q", " ", "=", " ", "S", "e", "r", "v", "o", "(", "1", ")", ";">> }

\* global statements of a primitive type: a declaration and a prototype
PrimitiveStatements ==
    { <<"i", "n", "t", " ", "a", " ", "=", " ", "1", ";">>, <<"i", "n", "t", " ", "h", "(", "i", "n", "t", ")", ";">> }

\* the texts of at most n statements, one on each line
RECURSIVE StatementTexts(_)
StatementTexts(n) ==
    IF n = 0 THEN {<<>>}
    ELSE StatementTexts(n - 1)
         \cup {t \o st \o <<"\n">> : t \in StatementTexts(n - 1),
                                      st \in OpaqueStatements \cup PrimitiveStatements}

InitOpaque ==
    /\ code \in {t \o <<"v", "o", "i", "d", " ", "l", "o", "o", "p", "(", ")", "{", "}", "\n">> : t \in StatementTexts(MaxStatements)}
    /\ phase = "text"
    /\ Blank

NextOpaque == ParseArduinoCode

SpecOpaque == InitOpaque /\ [][NextOpaque]_vars

\* C22: every global statement of a type that is not primitive is an opaque
\* declaration, with its semicolon, and is not discarded; the opaque
\* declarations are those statements alone and the variables are those of
\* the primitive declaration alone
C22_OpaqueRetained ==
    phase = "parsed" =>
        /\ \A st \in OpaqueStatements :
              (\E p \in 0..Len(code) : StartsWith(code, st, p))
              => \E k \in 1..Len(extra_declarations) : extra_declarations[k] = st
        /\ \A k \in 1..Len(extra_declarations) : extra_declarations[k] \in OpaqueStatements
        /\ \A i \in 1..Len(variables) : variables[i].name = <<"a">>

-----------------------------------------------------------------------------
(* The leading comment: the inputs                                          *)

MaxCommentLines == 3

\* the lines a sketch opens with
OpeningLines == { <<"/", "/", " ", "a">>, <<"/", "/", " ", " ", "b">>, <<"/", "/", "c">>, <<"i", "n", "t", " ", "x", ";">> }

\* the texts of at most n lines, each closed by a newline
RECURSIVE OpeningTexts(_)
OpeningTexts(n) ==
    IF n = 0 THEN {<<>>}
    ELSE OpeningTexts(n - 1)
         \cup {t \o l \o <<"\n">> : t \in OpeningTexts(n - 1), l \in OpeningLines}

InitComment ==
    /\ code \in {t \o <<"v", "o", "i", "d", " ", "l", "o", "o", "p", "(", ")", "{", "}", "\n">> : t \in OpeningTexts(MaxCommentLines)}
    /\ phase = "text"
    /\ Blank

NextComment == ParseArduinoCode

SpecComment == InitComment /\ [][NextComment]_vars

-----------------------------------------------------------------------------
(* Claims about the leading comment                                         *)

RECURSIVE MarkerLines(_, _)
\* the lines of s from offset pos on that start with //, up to the first
\* line that does not: each without the marker and without one space after it
MarkerLines(s, pos) ==
    IF pos >= Len(s) \/ ~StartsWith(s, <<"/", "/">>, pos) THEN <<>>
    ELSE LET line_end == NextOf(s, pos, "\n")
             from == IF pos + 2 < line_end /\ s[pos + 3] = " " THEN pos + 3 ELSE pos + 2
         IN  <<SubSeq(s, from + 1, line_end)>> \o MarkerLines(s, line_end + 1)

RECURSIVE JoinedByNewline(_)
JoinedByNewline(lines) ==
    IF lines = <<>> THEN <<>>
    ELSE IF Len(lines) = 1 THEN lines[1]
    ELSE lines[1] \o <<"\n">> \o JoinedByNewline(Tail(lines))

\* C23: of a sketch that opens with a line comment, the leading comment is
\* the run of // lines joined by newlines, each without its marker and
\* without exactly one space after the marker
C23_LineCommentText ==
    (phase = "parsed" /\ StartsWith(code, <<"/", "/">>, 0)) =>
        leading_comment = JoinedByNewline(MarkerLines(code, 0))

-----------------------------------------------------------------------------
(* The order of the identifiers: the inputs                                 *)

\* the lines a sketch may hold before its entry point: declarations with
\* the markers of inputs, outputs and parameters, a declaration of another
\* type and a function
OrderLines ==
    << <<"i", "n", "t", " ", "a", ";", " ", "/", "/", " ", "i", "n", "\n">>,
       <<"i", "n", "t", " ", "b", ";", " ", "/", "/", " ", "i", "n", "\n">>,
       <<"i", "n", "t", " ", "c", ";", " ", "/", "/", " ", "o", "u", "t", "\n">>,
       <<"f", "l", "o", "a", "t", " ", "d", ";", " ", "/", "/", " ", "o", "u", "t", "\n">>,
       <<"i", "n", "t", " ", "e", " ", "=", " ", "1", ";", " ", "/", "/", " ", "p", "a", "r", "\n">>,
       <<"#", "d", "e", "f", "i", "n", "e", " ", "X", " ", "1", " ", "/", "/", " ", "p", "a", "r", "\n">>,
       <<"S", "e", "r", "v", "o", " ", "s", ";", "\n">>,
       <<"i", "n", "t", " ", "f", "(", "i", "n", "t", " ", "x", ")", "{", "r", "e", "t", "u", "r", "n", " ", "x", ";", "}", "\n">> >>

\* the texts that hold any of the lines from number k on, in that order
RECURSIVE OrderTexts(_)
OrderTexts(k) ==
    IF k > Len(OrderLines) THEN {<<>>}
    ELSE OrderTexts(k + 1) \cup {OrderLines[k] \o t : t \in OrderTexts(k + 1)}

InitOrder ==
    /\ code \in {t \o <<"v", "o", "i", "d", " ", "l", "o", "o", "p", "(", ")", "{", "a", ";", "}", "\n">> : t \in OrderTexts(1)}
    /\ phase = "text"
    /\ Blank

NextOrder ==
    \/ ParseArduinoCode
    \/ ToggleEnableInput
    \/ SubstituteAliases
    \/ CreateUbiXmlSixx

SpecOrder == InitOrder /\ [][NextOrder]_vars

-----------------------------------------------------------------------------
(* Claims about the order of the identifiers                                *)

\* the sections of the document that hold entries, in document order
EntrySections == <<"inputs", "outputs", "parametrs", "declareCodePart", "functionCodePart">>

\* the node types that open an entry
EntryTypes == {"InputsOutputsAdaptorForUserBlock", "CodeUserBlockDeclareStandartBlock", "CodeUserBlockFunction"}

\* line k of the section opens an entry
EntryStart(lines, k) == lines[k].kind = "open" /\ lines[k].type \in EntryTypes

\* the lines of the section that carry an id the counter gave to a node of
\* an entry: the id of the instanceCollection node is a constant
CounterLines(lines) ==
    {k \in 1..Len(lines) :
        /\ lines[k].id # 0
        /\ lines[k].name # "instanceCollection"
        /\ \E j \in 1..k : EntryStart(lines, j)}

\* the ids of the entries of the section
EntryIds(lines) == {lines[k].id : k \in CounterLines(lines)}

\* C24: the ids of the entries grow in the order inputs, outputs,
\* parameters, declarations, functions, and inside a section from one
\* entry to the next
C24_TraversalOrder ==
    phase = "rendered" =>
        /\ \A a \in 1..Len(EntrySections) : \A b \in (a + 1)..Len(EntrySections) :
              \A ia \in {EntryIds(SectionLines(xml, EntrySections[a]))} :
              \A ib \in {EntryIds(SectionLines(xml, EntrySections[b]))} :
                 \A x \in ia : \A y \in ib : x < y
        /\ \A a \in 1..Len(EntrySections) :
              \A lines \in {SectionLines(xml, EntrySections[a])} :
              \A ks \in {CounterLines(lines)} :
                 \A i \in ks : \A j \in ks :
                    (i < j /\ \E e \in (i + 1)..j : EntryStart(lines, e))
                    => lines[i].id < lines[j].id

\* a document with inputs, outputs, a parameter, a declaration and a
\* function, two entries at least in the first two sections
C24_Witness ==
    /\ phase = "rendered"
    /\ Len(InputNames(xml)) >= 2
    /\ Len(OutputNames(xml)) >= 2
    /\ Len(ParameterNames(xml)) >= 1
    /\ EntryIds(SectionLines(xml, "declareCodePart")) # {}
    /\ EntryIds(SectionLines(xml, "functionCodePart")) # {}

-----------------------------------------------------------------------------
(* Aliases that are names of other variables: the inputs                    *)

MaxRenames == 2

MaxChainBody == 2

\* the aliases typed in the dialog: the name of another variable and a new name
ChainAliases == {<<"b">>, <<"c">>}

InitChain ==
    /\ code \in {AliasSketch(body) : body \in StringsUpTo({"a", "b", "+"}, MaxChainBody)}
    /\ phase = "text"
    /\ Blank

\* Save is pressed in the dialog of variable i with a new alias, the role
\* and the default left as they are shown
RenameVariable ==
    /\ phase = "parsed"
    /\ edits < MaxRenames
    /\ \E i \in 1..Len(variables) : \E alias_text \in ChainAliases :
          variables' = save_changes(variables, i, variables[i].role, alias_text,
                                    variables[i].default)
    /\ edits' = edits + 1
    /\ UNCHANGED <<application, code, block_name, block_description, leading_comment,
                   setup_code, loop_code, global_section_raw, functions,
                   global_includes, defines, extra_declarations, enable_input,
                   xml, xml_prev, phase>>

NextChain == ParseArduinoCode \/ RenameVariable \/ SubstituteAliases

SpecChain == InitChain /\ [][NextChain]_vars

-----------------------------------------------------------------------------
(* Claims about aliases that are names of other variables                   *)

\* the alias of the variable named word, the word itself when it names none
AliasOfWord(vs, word) ==
    IF \E i \in 1..Len(vs) : vs[i].name = word
    THEN vs[CHOOSE i \in 1..Len(vs) : vs[i].name = word].alias
    ELSE word

\* s with every word that is the name of a variable replaced by the alias
\* of that variable, all at once
ReplaceAllAtOnce(vs, toks) ==
    Flatten([k \in 1..Len(toks) |-> AliasOfWord(vs, toks[k])])

\* C25: each body handed to the emitter is the extracted body with every
\* word that names a variable replaced by the alias of that variable: an
\* alias put in for one variable is not replaced again for another
C25_OwnAliasOnly ==
    phase = "prepared" =>
        /\ loop_code = ReplaceAllAtOnce(variables,
                           Tokens(extract_function_body(code, <<"l", "o", "o", "p">>), 0))
        /\ setup_code = ReplaceAllAtOnce(variables,
                            Tokens(extract_function_body(code, <<"s", "e", "t", "u", "p">>), 0))

-----------------------------------------------------------------------------
(* Names used outside the entry points: the inputs                          *)

\* the markers the declaration of a may carry
ReferMarkers == { <<>>, <<" ", "/", "/", " ", "i", "n">>, <<" ", "/", "/", " ", "o", "u", "t">>, <<" ", "/", "/", " ", "p", "a", "r">> }

\* int a;marker / int b = a; / int f(){return a;} / setup and loop that use a
ReferSketch(marker) ==
    <<"i", "n", "t", " ", "a", ";">> \o marker \o <<"\n", "i", "n", "t", " ", "b", " ", "=", " ", "a", ";", "\n", "i", "n", "t", " ", "f", "(", ")", "{", "r", "e", "t", "u", "r", "n", " ", "a", ";", "}", "\n", "v", "o", "i", "d", " ", "s", "e", "t", "u", "p", "(", ")", "{", "a", ";", "}", "\n", "v", "o", "i", "d", " ", "l", "o", "o", "p", "(", ")", "{", "a", "+", "b", ";", "}", "\n">>

InitRefer ==
    /\ code \in {ReferSketch(marker) : marker \in ReferMarkers}
    /\ phase = "text"
    /\ Blank

NextRefer ==
    \/ ParseArduinoCode
    \/ EditVariable
    \/ ToggleEnableInput
    \/ SubstituteAliases
    \/ CreateUbiXmlSixx

SpecRefer == InitRefer /\ [][NextRefer]_vars

-----------------------------------------------------------------------------
(* Claims about names used outside the entry points                        *)

\* name occurs in text as a whole word
HasWord(text, name) == \E p \in 0..(Len(text) - 1) : WordAt(text, name, p)

\* the code texts of the document: the two bodies, the function bodies and
\* the initializers of the declarations
CodeTexts(doc) ==
    {LeafTexts(doc, "loopCodePart", "code", 3)[k] : k \in 1..Len(LeafTexts(doc, "loopCodePart", "code", 3))}
    \cup {LeafTexts(doc, "setupCodePart", "code", 3)[k] : k \in 1..Len(LeafTexts(doc, "setupCodePart", "code", 3))}
    \cup {LeafTexts(doc, "functionCodePart", "functionBody", 6)[k] : k \in 1..Len(LeafTexts(doc, "functionCodePart", "functionBody", 6))}
    \cup {LeafTexts(doc, "declareCodePart", "lastPart", 6)[k] : k \in 1..Len(LeafTexts(doc, "declareCodePart", "lastPart", 6))}

\* C26: in a rendered document no code text holds the original name of a
\* variable that has an alias of its own
C26_NoOriginalName ==
    phase = "rendered" =>
        \A i \in Renamed(variables) : \A text \in CodeTexts(xml) :
            ~HasWord(text, variables[i].name)

-----------------------------------------------------------------------------
(* Braces in literals and comments: the inputs                              *)

\* the character put inside the literal or the comment
QuotedChars == {"{", "}", "x"}

\* a string literal, a character literal, a block comment and a line
\* comment around the character ch
Quotings(ch) ==
    { <<"\"", ch, "\"", ";">>, <<"'", ch, "'", ";">>, <<"/", "*", ch, "*", "/">>, <<"/", "/", ch, "\n">> }

\* the statements before and after it
AroundTexts == { <<>>, <<"y", ";">>, <<"{", "y", ";", "}">> }

\* void setup(){ inner } int f(){ inner } void loop(){}
QuotedSketch(inner) ==
    <<"v", "o", "i", "d", " ", "s", "e", "t", "u", "p", "(", ")", "{">> \o inner \o <<"}", "\n", "i", "n", "t", " ", "f", "(", ")", "{">> \o inner \o <<"}", "\n", "v", "o", "i", "d", " ", "l", "o", "o", "p", "(", ")", "{", "}", "\n">>

QuotedInners ==
    {pre \o q \o post : pre \in AroundTexts, post \in AroundTexts,
                         q \in UNION {Quotings(ch) : ch \in QuotedChars}}

InitQuoted ==
    /\ code \in {QuotedSketch(inner) : inner \in QuotedInners}
    /\ phase = "text"
    /\ Blank

NextQuoted == ExtractGlobalSection \/ ParseFunctions \/ ExtractBodies

SpecQuoted == InitQuoted /\ [][NextQuoted]_vars

-----------------------------------------------------------------------------
(* Claims about braces in literals and comments                             *)

\* text without the whitespace at its two ends
Trimmed(text) ==
    IF \A k \in 1..Len(text) : text[k] \in Whitespace THEN <<>>
    ELSE SubSeq(text,
                CHOOSE a \in 1..Len(text) :
                    text[a] \notin Whitespace /\ \A k \in 1..(a - 1) : text[k] \in Whitespace,
                CHOOSE b \in 1..Len(text) :
                    text[b] \notin Whitespace /\ \A k \in (b + 1)..Len(text) : text[k] \in Whitespace)

\* C27: a brace inside a literal or a comment of a body does not end the
\* body and does not open a block: the body of setup and the body of f
\* are the text the sketch was made with, as they are when the character
\* is x
C27_QuotedBraceIgnored ==
    \A inner \in QuotedInners :
        code = QuotedSketch(inner) =>
            /\ phase = "bodies" => setup_code = Trimmed(inner)
            /\ phase \in {"functions", "bodies"} =>
                  \A k \in 1..Len(functions) :
                      functions[k].name = <<"f">> => functions[k].body = Trimmed(inner)

-----------------------------------------------------------------------------
(* Claims about the reference nodes                                         *)

\* the reference lines of the pins of the document
PinRefs(doc, ref_name) ==
    {k \in 1..Len(doc) : doc[k].kind = "ref" /\ doc[k].name = ref_name /\ doc[k].depth \in {4, 5}}

\* the line of the name node of the pin whose reference is at line k: the
\* last name leaf before it
OwnName(doc, k) ==
    CHOOSE j \in 1..(k - 1) :
        /\ doc[j].kind = "leaf" /\ doc[j].name = "name" /\ doc[j].depth = doc[k].depth
        /\ \A i \in (j + 1)..(k - 1) : ~(doc[i].kind = "leaf" /\ doc[i].name = "name")

\* C28: in a document with a pin, every block reference names the
\* CodeUserBlock node, every nameCash reference names the name node of its
\* own pin and every comment reference names a comment String node
C28_ReferencesResolve ==
    (phase = "rendered" /\ PinRefs(xml, "block") # {}) =>
        /\ \A k \in PinRefs(xml, "block") :
              \E j \in 1..Len(xml) :
                  xml[j].id = xml[k].idref /\ xml[j].type = "CodeUserBlock"
        /\ \A k \in PinRefs(xml, "nameCash") :
              xml[OwnName(xml, k)].id = xml[k].idref
        /\ \A k \in PinRefs(xml, "comment") :
              \E j \in 1..Len(xml) :
                  /\ xml[j].id = xml[k].idref
                  /\ xml[j].name = "comment" /\ xml[j].type = "String"

-----------------------------------------------------------------------------
(* The variable dialog with its messages                                    *)

MaxSaves == 2

\* how save_changes ends for the text of the alias line edit: one of the
\* two warnings, or the dialog is accepted
SaveOutcome(alias_text) ==
    IF Strip(alias_text) = <<>> THEN "empty"
    ELSE IF ~IsIdentifier(Strip(alias_text)) THEN "malformed"
    ELSE "accepted"

\* Save is pressed in the dialog of variable i; the texts typed and the
\* way the handler ended are kept
SaveChanges ==
    /\ phase = "parsed"
    /\ edits < MaxSaves
    /\ \E i \in 1..Len(variables) : \E new_role \in Roles :
       \E alias_text \in AliasInputs(variables[i]) :
       \E default_text \in DefaultInputs(variables[i]) :
          /\ variables' = save_changes(variables, i, new_role, alias_text, default_text)
          /\ outcome' = [handler |-> "save_changes", raised |-> "",
                         ok |-> SaveOutcome(alias_text) = "accepted",
                         info |-> SaveOutcome(alias_text),
                         typed |-> alias_text]
    /\ edits' = edits + 1
    /\ UNCHANGED <<code, block_name, block_description, leading_comment,
                   setup_code, loop_code, global_section_raw, functions,
                   global_includes, defines, extra_declarations, enable_input,
                   xml, xml_prev, cli_description, dest_file, phase>>

InitDialog ==
    /\ code \in RenderSketches
    /\ phase = "text"
    /\ Blank

NextDialog == ParseArduinoCode \/ SaveChanges

SpecDialog == InitDialog /\ [][NextDialog]_vars

-----------------------------------------------------------------------------
(* Claims about a refused edit                                              *)

\* C29: an edit whose alias, without the blanks around it, is empty or
\* outside the identifier grammar is refused as a whole: the mapping of the
\* variables after it is the mapping before it, role and default of the
\* edited variable included
C29_RefusedEditChangesNothing ==
    [][(/\ outcome'.handler = "save_changes"
        /\ edits' = edits + 1
        /\ ~InIdentifierGrammar(Trimmed(outcome'.typed)))
       => (variables' = variables /\ ~outcome'.ok)]_vars

\* a refused edit after an accepted one: the alias of the accepted edit is
\* still there
C29_Witness ==
    /\ outcome.handler = "save_changes"
    /\ edits = 2
    /\ outcome.info \in {"empty", "malformed"}
    /\ \E i \in 1..Len(variables) : variables[i].alias = <<"a", "x">>

-----------------------------------------------------------------------------
(* Claims about the caller sequence                                         *)

\* C30: parse_code ends without an exception, and generate_block_to_file
\* called after it returns True with the file name and leaves the document
\* in the file
C30_SequenceCompletes ==
    /\ outcome.handler = "parse_code" => (outcome.raised = "" /\ outcome.ok)
    /\ outcome.handler = "generate_block_to_file"
          => (outcome.ok /\ outcome.info = "filename" /\ dest_file.exists)

=============================================================================
